---- MODULE Spec2Model ----
(***************************************************************************)
(* Model of the cpppy_bridge library: the error translation layer          *)
(* (ErrorHandler), the call marshaling of PythonModule / PythonFunction /  *)
(* PythonBridge, and the type conversion engine (TypeConverter,            *)
(* ComplexTypeConverter).                                                  *)
(*                                                                         *)
(* Text is modelled as a sequence of fragments, so that concatenation is   *)
(* \o and "contains" is a sub-sequence test.  A C++ function that may      *)
(* throw is an operator returning an outcome record                        *)
(*   [st |-> "return", val |-> v]  or  [st |-> "throw", err |-> e].        *)
(***************************************************************************)
EXTENDS Integers, Sequences, FiniteSets, TLC

VARIABLES
    s_error_callbacks,   \* ErrorHandler::s_error_callbacks, in registration order
    s_verbose_errors,    \* ErrorHandler::s_verbose_errors
    s_error_logging,     \* ErrorHandler::s_error_logging
    s_to_python_converters,    \* CustomTypeRegistry::s_to_python_converters
    s_from_python_converters,  \* CustomTypeRegistry::s_from_python_converters
    m_initialized,       \* PythonInterpreter::m_initialized
    bridge_initialized,  \* PythonBridge::m_initialized
    m_modules,           \* PythonBridge::m_modules, the cache of loaded modules
    modules,             \* the PythonModule objects constructed so far
    functions,           \* the PythonFunction objects constructed so far
    runtime_use,         \* how the last operation reached the embedded runtime
    scoped_handlers,     \* the ScopedErrorHandler objects alive
    op,                  \* the last operation called, with its inputs
    events,              \* what that operation logged and which callbacks it ran, in order
    result               \* how that operation ended

vars ==
    <<s_error_callbacks, s_verbose_errors, s_error_logging,
      s_to_python_converters, s_from_python_converters,
      m_initialized, bridge_initialized, m_modules, modules, functions, runtime_use,
      scoped_handlers, op, events, result>>

\* Longest callback list the model registers.
MaxCallbacks == 3

----------------------------------------------------------------------------
(* Text helpers *)

\* m occurs in s as a contiguous run of fragments.
Contains(s, m) ==
    \E i \in 0..(Len(s) - Len(m)) : SubSeq(s, i + 1, i + Len(m)) = m

Ret(v) == [st |-> "return", val |-> v]
Throw(e) == [st |-> "throw", err |-> e]

\* std::optional
NullOpt == [has |-> FALSE, val |-> "-"]
Some(v) == [has |-> TRUE, val |-> v]

----------------------------------------------------------------------------
(* Native exception values *)

\* PythonBridgeException and its subclasses.
Taxonomy ==
    {"PythonBridgeException", "PythonInterpreterException", "PythonModuleException",
     "PythonFunctionException", "TypeConversionException"}

PythonBridgeException(message) ==
    [cls |-> "PythonBridgeException", what |-> message]

PythonModuleException(module_name, message) ==
    [cls |-> "PythonModuleException",
     what |-> <<"Python Module Error [", module_name, "]: ">> \o message,
     module_name |-> module_name]

PythonFunctionException(function_name, message) ==
    [cls |-> "PythonFunctionException",
     what |-> <<"Python Function Error [", function_name, "]: ">> \o message,
     function_name |-> function_name]

TypeConversionException(from_type, to_type, message) ==
    [cls |-> "TypeConversionException",
     what |-> <<"Type Conversion Error [", from_type, " -> ", to_type, "]: ">> \o message,
     from_type |-> from_type, to_type |-> to_type]

\* std::runtime_error(text)
runtime_error(message) == [cls |-> "std::runtime_error", what |-> message]

\* pybind11::cast_error, raised by a failing obj.cast<T>() or argument cast.
cast_error(message) == [cls |-> "py::cast_error", what |-> message]

\* pybind11::error_already_set carrying the raised Python exception e.
error_already_set(e) == [cls |-> "py::error_already_set", what |-> e.msg, pyexc |-> e]

\* A thrown value that is not derived from std::exception.
non_std_throw == [cls |-> "non_std", what |-> <<>>]

IsPyError(err) == err.cls = "py::error_already_set"
IsStdException(err) == err.cls # "non_std"

----------------------------------------------------------------------------
(* Python exceptions as the runtime presents them to the extraction code *)

\* kind: __name__ of the exception type; msg: str(value);
\* strRaises: str(value) itself raises; tb: state of the attached traceback
\*   "none" no traceback, "full" format_tb and extract_tb work,
\*   "fmtfail" format_tb raises, "extfail" extract_tb raises, "empty" no frames,
\*   "noline" the innermost frame has a file name but its lineno is None.
PyExc(kind, msg, strRaises, tb) ==
    [kind |-> kind, msg |-> msg, strRaises |-> strRaises, tb |-> tb]

Kinds ==
    {"ModuleNotFoundError", "ImportError", "AttributeError", "TypeError",
     "ValueError", "ZeroDivisionError", "valueerror"}

PyExceptions ==
    {PyExc(k, <<"bad input">>, FALSE, "full") : k \in Kinds}
    \cup {PyExc("ValueError", <<>>, FALSE, "full"),
          PyExc("ValueError", <<"bad input">>, TRUE, "full"),
          PyExc("KeyError", <<"k">>, FALSE, "none"),
          PyExc("KeyError", <<"k">>, FALSE, "fmtfail"),
          PyExc("KeyError", <<"k">>, FALSE, "extfail"),
          PyExc("KeyError", <<"k">>, FALSE, "empty"),
          PyExc("KeyError", <<"k">>, FALSE, "noline")}

\* struct PythonErrorInfo with its default member values.
PythonErrorInfo ==
    [type |-> "", message |-> <<>>, traceback |-> <<>>, file |-> "",
     line |-> -1, function |-> ""]

parsePythonTraceback(e) ==
    IF e.tb = "fmtfail"
    THEN <<"Failed to parse traceback">>
    ELSE IF e.tb = "empty" THEN <<>>
    ELSE <<"  File script.py, line 3, in f">>

extractPythonErrorInfo(e) ==
    LET withType == [PythonErrorInfo EXCEPT !.type = e.kind]
    IN  IF e.strRaises
        THEN \* the outer catch (...) overwrites type and message
             [withType EXCEPT !.type = "Unknown",
                              !.message = <<"Failed to extract Python error information">>]
        ELSE LET withMsg == [withType EXCEPT !.message = e.msg]
             IN  IF e.tb = "none" THEN withMsg
                 ELSE LET withTb == [withMsg EXCEPT !.traceback = parsePythonTraceback(e)]
                      IN  IF e.tb = "full"
                          THEN \* innermost frame: script.py, line 3, in f
                               [withTb EXCEPT !.file = "script.py", !.line = 3,
                                              !.function = "f"]
                          ELSE IF e.tb = "noline"
                          THEN \* py::int_(lineno) raised after info.file was set;
                               \* the inner catch (...) keeps what is there
                               [withTb EXCEPT !.file = "script.py"]
                          ELSE withTb   \* extract_tb raised, or no frame

formatErrorInfo(info) ==
    <<"Python Error: ", info.type>>
    \o (IF info.message # <<>> THEN <<" - ">> \o info.message ELSE <<>>)
    \o (IF s_verbose_errors
        THEN (IF info.file # ""
              THEN <<"\n  File: ", info.file>>
                   \o (IF info.line > 0 THEN <<":", ToString(info.line)>> ELSE <<>>)
              ELSE <<>>)
             \o (IF info.function # "" THEN <<"\n  Function: ", info.function>> ELSE <<>>)
             \o (IF info.traceback # <<>>
                 THEN <<"\n  Traceback:\n">> \o info.traceback ELSE <<>>)
        ELSE <<>>)

----------------------------------------------------------------------------
(* Events an operation leaves behind, in program order *)

ExtractEvent(info) == [ev |-> "extract", cb |-> "-", info |-> info, text |-> <<>>]
LogEvent(info, text) == [ev |-> "log", cb |-> "-", info |-> info, text |-> text]
CallbackEvent(cb, info) == [ev |-> "callback", cb |-> cb, info |-> info, text |-> <<>>]
CallbackErrorEvent(cb, info) ==
    [ev |-> "callback_error", cb |-> cb, info |-> info,
     text |-> <<"Error in error callback function">>]

\* The callbacks an application registers; "throwing" raises when invoked.
Callbacks == {"log1", "throwing", "log2"}
CallbackRaises(cb) == cb = "throwing"

logError(info) ==
    IF ~s_error_logging THEN <<>>
    ELSE <<LogEvent(info, <<"[timestamp] ">> \o formatErrorInfo(info))>>

RECURSIVE triggerFrom(_, _, _)
triggerFrom(cbs, i, info) ==
    IF i > Len(cbs) THEN <<>>
    ELSE <<CallbackEvent(cbs[i], info)>>
         \o (IF CallbackRaises(cbs[i]) THEN <<CallbackErrorEvent(cbs[i], info)>> ELSE <<>>)
         \o triggerFrom(cbs, i + 1, info)

\* A fan-out without the try/catch around each callback: the first callback
\* that raises ends it.
RECURSIVE triggerUntilRaise(_, _, _)
triggerUntilRaise(cbs, i, info) ==
    IF i > Len(cbs) THEN <<>>
    ELSE <<CallbackEvent(cbs[i], info)>>
         \o (IF CallbackRaises(cbs[i]) THEN <<>> ELSE triggerUntilRaise(cbs, i + 1, info))

triggerErrorCallbacks_AbortsOnRaise(info) == triggerUntilRaise(s_error_callbacks, 1, info)

triggerErrorCallbacks(info) == triggerFrom(s_error_callbacks, 1, info)

\* A handler that runs the callbacks first and logs afterwards.
handlePythonException_LogsLast(e) ==
    LET error_info == extractPythonErrorInfo(e)
    IN  [info |-> error_info,
         events |-> <<ExtractEvent(error_info)>>
                    \o triggerErrorCallbacks(error_info)
                    \o (IF s_error_logging THEN logError(error_info) ELSE <<>>)]

\* Returns the record and the events of logging and fan-out.
handlePythonException(e) ==
    LET error_info == extractPythonErrorInfo(e)
    IN  [info |-> error_info,
         events |-> <<ExtractEvent(error_info)>>
                    \o (IF s_error_logging THEN logError(error_info) ELSE <<>>)
                    \o triggerErrorCallbacks(error_info)]

\* A translation that lost the ValueError arm of the lookup.
convertPythonException_NoValueError(e) ==
    LET error_info == extractPythonErrorInfo(e)
    IN  IF error_info.type = "ModuleNotFoundError" \/ error_info.type = "ImportError"
        THEN Throw(PythonModuleException("unknown", error_info.message))
        ELSE IF error_info.type = "AttributeError"
        THEN Throw(PythonFunctionException("unknown", error_info.message))
        ELSE IF error_info.type = "TypeError"
        THEN Throw(TypeConversionException("unknown", "unknown", error_info.message))
        ELSE Throw(PythonBridgeException(formatErrorInfo(error_info)))

\* The events of convertPythonException: it extracts a record of its own.
convertPythonExceptionEvents(e) == <<ExtractEvent(extractPythonErrorInfo(e))>>

convertPythonException(e) ==
    LET error_info == extractPythonErrorInfo(e)
    IN  IF error_info.type = "ModuleNotFoundError" \/ error_info.type = "ImportError"
        THEN Throw(PythonModuleException("unknown", error_info.message))
        ELSE IF error_info.type = "AttributeError"
        THEN Throw(PythonFunctionException("unknown", error_info.message))
        ELSE IF error_info.type = "TypeError" \/ error_info.type = "ValueError"
        THEN Throw(TypeConversionException("unknown", "unknown", error_info.message))
        ELSE Throw(PythonBridgeException(formatErrorInfo(error_info)))

----------------------------------------------------------------------------
(* Native and dynamic values *)

\* Scaled-down widths: int holds -IntLim..IntLim-1, long twice that range;
\* a dynamic integer is unbounded and may exceed both.
IntLim == 2
LongLim == 2 * IntLim

\* Floating point values are counted in halves: a double holds every multiple
\* of one half up to DblLim halves, a float only the whole numbers among them.
DblLim == 3

ScalarTypes == {"bool", "int", "long", "float", "double", "string"}

IntValues == (-IntLim)..(IntLim - 1)
LongValues == (-LongLim)..(LongLim - 1)
DoubleValues == (-DblLim)..DblLim
FloatValues == {x \in DoubleValues : x % 2 = 0}
StringOrder == <<"", "a", "b", "text">>
StringValues == {StringOrder[i] : i \in 1..Len(StringOrder)}

NativeValues(T) ==
    CASE T = "bool" -> BOOLEAN
      [] T = "int" -> IntValues
      [] T = "long" -> LongValues
      [] T = "float" -> FloatValues
      [] T = "double" -> DoubleValues
      [] T = "string" -> StringValues

\* py::object values: the runtime type tag t and the payload, held in the
\* field of its type (b: boolean, n: integer or float, s: text, items: the
\* elements of a list or tuple, the <<key, value>> pairs of a dict).
Dyn(t, b, n, s, items) == [s |-> s, t |-> t, b |-> b, n |-> n, items |-> items]
DNone == Dyn("None", FALSE, 0, "", <<>>)
DBool(b) == Dyn("bool", b, 0, "", <<>>)
DInt(n) == Dyn("int", FALSE, n, "", <<>>)
DFloat(x) == Dyn("float", FALSE, x, "", <<>>)
DStr(s) == Dyn("str", FALSE, 0, s, <<>>)
DList(items) == Dyn("list", FALSE, 0, "", items)
DTuple(items) == Dyn("tuple", FALSE, 0, "", items)
DDict(items) == Dyn("dict", FALSE, 0, "", items)

DynScalars ==
    {DNone} \cup {DBool(b) : b \in BOOLEAN}
    \cup {DInt(n) : n \in (-LongLim - 1)..LongLim}
    \cup {DFloat(x) : x \in DoubleValues}
    \cup {DStr(s) : s \in StringValues}

\* double -> float narrowing of the cast: the nearest whole number below.
NarrowToFloat(x) == x - (x % 2)

isPythonNone(obj) == obj.t = "None"
isPythonBool(obj) == obj.t = "bool"
\* bool is a subclass of int in the runtime, so PyLong_Check accepts it
isPythonInt(obj) == obj.t \in {"int", "bool"}
isPythonFloat(obj) == obj.t = "float"
isPythonString(obj) == obj.t = "str"
isPythonList(obj) == obj.t = "list"
isPythonDict(obj) == obj.t = "dict"
isPythonTuple(obj) == obj.t = "tuple"

CastFailure == cast_error(<<"Unable to cast Python instance to C++ type">>)

\* obj.cast<T>() for a scalar T, as the binding layer's casters decide it.
PyCast(T, obj) ==
    CASE T = "bool" ->
            IF obj.t = "bool" THEN Ret(obj.b)
            ELSE IF obj.t = "None" THEN Ret(FALSE)
            ELSE IF obj.t \in {"int", "float"} THEN Ret(obj.n # 0)
            ELSE Throw(CastFailure)
      [] T \in {"int", "long"} ->
            IF obj.t = "int"
            THEN IF obj.n \in NativeValues(T) THEN Ret(obj.n) ELSE Throw(CastFailure)
            ELSE IF obj.t = "bool" THEN Ret(IF obj.b THEN 1 ELSE 0)
            ELSE Throw(CastFailure)
      [] T \in {"float", "double"} ->
            LET fit(x) == IF T = "float" THEN NarrowToFloat(x) ELSE x
            IN  IF obj.t = "float" THEN Ret(fit(obj.n))
                ELSE IF obj.t = "int" THEN Ret(2 * obj.n)
                ELSE IF obj.t = "bool" THEN Ret(IF obj.b THEN 2 ELSE 0)
                ELSE Throw(CastFailure)
      [] T = "string" ->
            IF obj.t = "str" THEN Ret(obj.s) ELSE Throw(CastFailure)
      [] OTHER -> Throw(CastFailure)   \* a class the binding layer does not know

----------------------------------------------------------------------------
(* TypeConverter: the built-in scalar specializations *)

\* A bool specialization that builds py::int_ instead of py::bool_.
toPython_BoolAsInt(T, value) ==
    CASE T = "string" -> DStr(value)
      [] T = "int" -> DInt(value)
      [] T = "double" -> DFloat(value)
      [] T = "bool" -> DInt(IF value THEN 1 ELSE 0)
      [] T = "float" -> DFloat(value)
      [] T = "long" -> DInt(value)

toPython(T, value) ==
    CASE T = "string" -> DStr(value)
      [] T = "int" -> DInt(value)
      [] T = "double" -> DFloat(value)
      [] T = "bool" -> DBool(value)
      [] T = "float" -> DFloat(value)
      [] T = "long" -> DInt(value)

\* The specializations without their membership tests: the cast alone decides.
fromPython_CastOnly(T, obj) == PyCast(T, obj)

fromPython(T, obj) ==
    CASE T = "string" ->
            IF isPythonString(obj) THEN PyCast(T, obj)
            ELSE Throw(runtime_error(<<"Cannot convert Python object to std::string">>))
      [] T = "int" ->
            IF isPythonInt(obj) THEN PyCast(T, obj)
            ELSE Throw(runtime_error(<<"Cannot convert Python object to int">>))
      [] T = "double" ->
            IF isPythonFloat(obj) \/ isPythonInt(obj) THEN PyCast(T, obj)
            ELSE Throw(runtime_error(<<"Cannot convert Python object to double">>))
      [] T = "bool" ->
            IF isPythonBool(obj) THEN PyCast(T, obj)
            ELSE Throw(runtime_error(<<"Cannot convert Python object to bool">>))
      [] T = "float" ->
            IF isPythonFloat(obj) \/ isPythonInt(obj) THEN PyCast(T, obj)
            ELSE Throw(runtime_error(<<"Cannot convert Python object to float">>))
      [] T = "long" ->
            IF isPythonInt(obj) THEN PyCast(T, obj)
            ELSE Throw(runtime_error(<<"Cannot convert Python object to long">>))

\* A probe without the try/catch: the cast's failure reaches the caller.
canConvert_Propagates(T, obj) ==
    LET r == PyCast(T, obj)
    IN  IF r.st = "return" THEN Ret(TRUE) ELSE r

\* try { obj.cast<T>(); return true; } catch (const py::cast_error&) { return false; }
canConvert(T, obj) ==
    LET r == PyCast(T, obj)
    IN  IF r.st = "return" THEN Ret(TRUE)
        ELSE IF r.err.cls = "py::cast_error" THEN Ret(FALSE)
        ELSE r

----------------------------------------------------------------------------
(* ComplexTypeConverter *)

\* Longest vector and largest map the model converts.
MaxLen == 2

\* vectorToPython<T>: append toPython(item) for each item, in order.
vectorToPython(T, vec) == DList([i \in 1..Len(vec) |-> toPython(T, vec[i])])

\* A loop that leaves out the elements it cannot convert.
RECURSIVE vectorFromItems_SkipsFailures(_, _, _, _)
vectorFromItems_SkipsFailures(T, items, i, acc) ==
    IF i > Len(items) THEN Ret(acc)
    ELSE LET r == fromPython(T, items[i])
         IN  vectorFromItems_SkipsFailures(T, items, i + 1,
                 IF r.st = "throw" THEN acc ELSE Append(acc, r.val))

RECURSIVE vectorFromItems(_, _, _, _)
vectorFromItems(T, items, i, acc) ==
    IF i > Len(items) THEN Ret(acc)
    ELSE LET r == fromPython(T, items[i])
         IN  IF r.st = "throw" THEN r
             ELSE vectorFromItems(T, items, i + 1, Append(acc, r.val))

vectorFromPython(T, obj) ==
    IF ~isPythonList(obj)
    THEN Throw(runtime_error(<<"Expected Python list for vector conversion">>))
    ELSE vectorFromItems(T, obj.items, 1, <<>>)

\* Position of a key in the ordering of std::map<K, V> (std::less<K>).
Rank(K, key) ==
    CASE K = "string" -> CHOOSE i \in 1..Len(StringOrder) : StringOrder[i] = key
      [] K = "bool" -> IF key THEN 1 ELSE 0
      [] OTHER -> key

RECURSIVE SortedKeys(_, _)
SortedKeys(K, keys) ==
    IF keys = {} THEN <<>>
    ELSE LET first == CHOOSE k \in keys : \A other \in keys : Rank(K, k) <= Rank(K, other)
         IN  <<first>> \o SortedKeys(K, keys \ {first})

\* The number a dynamic value compares and hashes as, in halves.
NumberOf(obj) ==
    IF obj.t = "bool" THEN (IF obj.b THEN 2 ELSE 0)
    ELSE IF obj.t = "int" THEN 2 * obj.n
    ELSE obj.n

\* Key equality of the runtime's dict: numbers by value, the rest by type and payload.
PyKeyEq(a, b) ==
    IF a.t \in {"bool", "int", "float"} /\ b.t \in {"bool", "int", "float"}
    THEN NumberOf(a) = NumberOf(b)
    ELSE a = b

\* result[key] = value on a py::dict: overwrite in place, else add at the end.
DictSet(items, key, value) ==
    IF \E i \in 1..Len(items) : PyKeyEq(items[i][1], key)
    THEN [i \in 1..Len(items) |->
             IF PyKeyEq(items[i][1], key) THEN <<items[i][1], value>> ELSE items[i]]
    ELSE Append(items, <<key, value>>)

RECURSIVE mapToItems(_, _, _, _, _, _)
mapToItems(K, V, map, keys, i, items) ==
    IF i > Len(keys) THEN items
    ELSE mapToItems(K, V, map, keys, i + 1,
                    DictSet(items, toPython(K, keys[i]), toPython(V, map[keys[i]])))

\* mapToPython<K, V>: the pairs of the std::map in key order
mapToPython(K, V, map) ==
    DDict(mapToItems(K, V, map, SortedKeys(K, DOMAIN map), 1, <<>>))

\* result[key] = value on a std::map
MapSet(map, key, value) ==
    [k \in (DOMAIN map) \cup {key} |-> IF k = key THEN value ELSE map[k]]

\* A loop that converts item.first where it should convert item.second.
RECURSIVE mapFromItems_ValueFromKey(_, _, _, _, _)
mapFromItems_ValueFromKey(K, V, items, i, acc) ==
    IF i > Len(items) THEN Ret(acc)
    ELSE LET key == fromPython(K, items[i][1])
             value == fromPython(V, items[i][1])
         IN  IF key.st = "throw" THEN key
             ELSE IF value.st = "throw" THEN value
             ELSE mapFromItems_ValueFromKey(K, V, items, i + 1,
                                            MapSet(acc, key.val, value.val))

RECURSIVE mapFromItems(_, _, _, _, _)
mapFromItems(K, V, items, i, acc) ==
    IF i > Len(items) THEN Ret(acc)
    ELSE LET key == fromPython(K, items[i][1])
             value == fromPython(V, items[i][2])
         IN  IF key.st = "throw" THEN key
             ELSE IF value.st = "throw" THEN value
             ELSE mapFromItems(K, V, items, i + 1, MapSet(acc, key.val, value.val))

mapFromPython(K, V, obj) ==
    IF ~isPythonDict(obj)
    THEN Throw(runtime_error(<<"Expected Python dict for map conversion">>))
    ELSE mapFromItems(K, V, obj.items, 1, <<>>)

\* tupleToPython<Args...>: result[i++] = toPython(arg) for each position
tupleToPython(Ts, tuple) == DTuple([i \in 1..Len(Ts) |-> toPython(Ts[i], tuple[i])])

\* py_tuple.cast<std::tuple<Args...>>(): every position through its caster
RECURSIVE castTupleItems(_, _, _, _)
castTupleItems(Ts, items, i, acc) ==
    IF i > Len(Ts) THEN Ret(acc)
    ELSE LET r == PyCast(Ts[i], items[i])
         IN  IF r.st = "throw" THEN r
             ELSE castTupleItems(Ts, items, i + 1, Append(acc, r.val))

\* A conversion that lets a longer sequence through and drops the extras.
tupleFromPython_Truncates(Ts, obj) ==
    IF ~isPythonTuple(obj) THEN Throw(runtime_error(<<"Expected a Python tuple">>))
    ELSE IF Len(obj.items) < Len(Ts) THEN Throw(runtime_error(<<"Tuple size mismatch">>))
    ELSE castTupleItems(Ts, obj.items, 1, <<>>)

tupleFromPython(Ts, obj) ==
    IF ~isPythonTuple(obj) THEN Throw(runtime_error(<<"Expected a Python tuple">>))
    ELSE IF Len(obj.items) # Len(Ts) THEN Throw(runtime_error(<<"Tuple size mismatch">>))
    ELSE castTupleItems(Ts, obj.items, 1, <<>>)

optionalToPython(T, opt) == IF opt.has THEN toPython(T, opt.val) ELSE DNone

optionalFromPython(T, obj) ==
    IF isPythonNone(obj) THEN Ret(NullOpt)
    ELSE LET r == fromPython(T, obj)
         IN  IF r.st = "throw" THEN r ELSE Ret(Some(r.val))


----------------------------------------------------------------------------
(* CustomTypeRegistry and the generic TypeConverter templates *)

\* The types converters are registered for: the user's struct Point {x, y}
\* and, among the types with a built-in specialization, int.
RegisteredTypes == {"Point", "int"}

\* The native members a value of T is made of, by type.
Shape(T) == IF T = "Point" THEN <<"double", "double">> ELSE <<T>>
Members(T, value) == IF T = "Point" THEN value ELSE <<value>>
FromMembers(T, members) == IF T = "Point" THEN members ELSE members[1]

PointValues == {<<1, 2>>, <<-DblLim, DblLim>>}

\* py::cast(value) of a class without a registered caster: a null handle,
\* with TypeError set in the runtime.
DNull == Dyn("null", FALSE, 0, "", <<>>)

\* The converter functions handed to the registry.  "asTuple" is the one of
\* the documentation (the members in a tuple), "asList" puts them in a list,
\* "raising" throws std::runtime_error, "throwing" throws a value that is
\* not derived from std::exception.
ToConverters == {"asTuple", "asList", "raising"}
FromConverters == {"asTuple", "asList", "raising", "throwing"}

ToConverter(conv, T, value) ==
    CASE conv = "asTuple" -> Ret(DTuple(tupleToPython(Shape(T), Members(T, value)).items))
      [] conv = "asList" -> Ret(DList(tupleToPython(Shape(T), Members(T, value)).items))
      [] conv = "raising" -> Throw(runtime_error(<<"converter failed">>))

FromConverter(conv, T, obj) ==
    LET members == castTupleItems(Shape(T), obj.items, 1, <<>>)
        read == IF Len(obj.items) # Len(Shape(T))
                THEN Throw(runtime_error(<<"wrong number of members">>))
                ELSE IF members.st = "throw" THEN members
                ELSE Ret(FromMembers(T, members.val))
    IN  CASE conv = "asTuple" ->
                IF isPythonTuple(obj) THEN read
                ELSE Throw(runtime_error(<<"expected a tuple">>))
          [] conv = "asList" ->
                IF isPythonList(obj) THEN read
                ELSE Throw(runtime_error(<<"expected a list">>))
          [] conv = "raising" -> Throw(runtime_error(<<"converter failed">>))
          [] conv = "throwing" -> Throw(non_std_throw)

\* std::unordered_map: find, and map[key] = value
MapHas(map, key) == \E e \in map : e.key = key
MapAt(map, key) == (CHOOSE e \in map : e.key = key).value

MapAssign(map, key, value) ==
    {e \in map : e.key # key} \cup {[key |-> key, value |-> value]}

hasToPythonConverter(T) == MapHas(s_to_python_converters, T)
hasFromPythonConverter(T) == MapHas(s_from_python_converters, T)

convertToPython(T, value) ==
    IF MapHas(s_to_python_converters, T)
    THEN ToConverter(MapAt(s_to_python_converters, T), T, value)
    ELSE Throw(runtime_error(<<"No registered converter for type: ", T>>))

convertFromPython(T, obj) ==
    IF MapHas(s_from_python_converters, T)
    THEN FromConverter(MapAt(s_from_python_converters, T), T, obj)
    ELSE Throw(runtime_error(<<"No registered converter for type: ", T>>))

\* template<typename T> py::object TypeConverter::toPython(const T&)
toPythonTemplate(T, value) ==
    IF hasToPythonConverter(T) THEN convertToPython(T, value)
    ELSE IF T \in ScalarTypes THEN Ret(toPython(T, value))
    ELSE Ret(DNull)

\* template<typename T> T TypeConverter::fromPython(const py::object&)
fromPythonTemplate(T, obj) ==
    IF hasFromPythonConverter(T) THEN convertFromPython(T, obj)
    ELSE PyCast(T, obj)

\* What a call of TypeConverter::toPython<T> runs: the explicit
\* specialization when T has one, the template otherwise.
toPythonOf(T, value) ==
    IF T \in ScalarTypes THEN Ret(toPython(T, value)) ELSE toPythonTemplate(T, value)

fromPythonOf(T, obj) ==
    IF T \in ScalarTypes THEN fromPython(T, obj) ELSE fromPythonTemplate(T, obj)

\* try { return fromPython<T>(obj); } catch (const std::exception&) { return std::nullopt; }
safeCast(T, obj) ==
    LET r == fromPythonOf(T, obj)
    IN  IF r.st = "return" THEN Ret(Some(r.val))
        ELSE IF IsStdException(r.err) THEN Ret(NullOpt)
        ELSE r

----------------------------------------------------------------------------
(* Call marshaling: PythonModule, PythonFunction, PythonBridge *)

\* What the Python callable does when invoked.
PyReturns(v) == [k |-> "ret", v |-> v, e |-> PyExc("", <<>>, FALSE, "none")]
PyRaises(e) == [k |-> "raise", v |-> DNone, e |-> e]

\* getattr on a module without the attribute; raised in C, so no traceback.
MissingAttribute ==
    PyExc("AttributeError", <<"module has no attribute">>, FALSE, "none")

\* e.what() of an error_already_set
PyWhat(e) == <<e.kind, ": ">> \o e.msg

Quiet(out) == [events |-> <<>>, out |-> out]

\* m_module.attr(name), the argument casts, the invocation; ends with the
\* returned py::object or with the exception that leaves the try block.
Invoke(c) ==
    IF ~c.hasFunc THEN Throw(error_already_set(MissingAttribute))
    ELSE IF ~c.argsOk THEN Throw(cast_error(<<"make_tuple(): unable to convert argument">>))
    ELSE IF c.beh.k = "raise" THEN Throw(error_already_set(c.beh.e))
    ELSE Ret(c.beh.v)

\* return result.cast<ReturnType>(), or nothing for void
CastResult(R, obj) == IF R = "void" THEN Ret("void") ELSE PyCast(R, obj)

\* catch (const py::error_already_set& e) of the typed calls
TranslateAndRaise(err) ==
    LET h == handlePythonException(err.pyexc)
        c == convertPythonException(err.pyexc)
    IN  [events |-> h.events \o convertPythonExceptionEvents(err.pyexc),
         out |-> IF c.st = "throw" THEN c ELSE Throw(err)]

TypedBody(c) ==
    LET r == Invoke(c)
        done == IF r.st = "return" THEN CastResult(c.R, r.val) ELSE r
    IN  IF done.st = "throw" /\ IsPyError(done.err)
        THEN TranslateAndRaise(done.err)
        ELSE Quiet(done)

\* template<R, Args...> R PythonModule::callFunction(name, args...)
callFunction(c) ==
    IF ~c.usable
    THEN Quiet(Throw(PythonModuleException(c.name, <<"Module not loaded">>)))
    ELSE TypedBody(c)

\* template<R, Args...> R PythonFunction::call(args...)
call(c) ==
    IF ~c.usable
    THEN Quiet(Throw(PythonFunctionException(c.name, <<"Invalid function">>)))
    ELSE TypedBody(c)

\* template<R, Args...> R PythonFunction::operator()(args...)
operatorCall(c) ==
    IF ~c.usable
    THEN Quiet(Throw(PythonFunctionException(c.name, <<"Invalid function">>)))
    ELSE TypedBody(c)

\* py::object PythonModule::callFunction(name, const std::vector<py::object>&)
callFunctionPy(c) ==
    IF ~c.usable
    THEN Quiet(Throw(runtime_error(<<"Module not loaded: ", c.name>>)))
    ELSE LET r == Invoke(c)
         IN  IF r.st = "throw" /\ IsPyError(r.err)
             THEN Quiet(Throw(runtime_error(<<"Python error in ", c.name, ": ">>
                                            \o PyWhat(r.err.pyexc))))
             ELSE Quiet(r)

\* py::object PythonFunction::callPy(const std::vector<py::object>&)
callPy(c) ==
    IF ~c.usable
    THEN Quiet(Throw(runtime_error(<<"Invalid function: ", c.name>>)))
    ELSE LET r == Invoke(c)
         IN  IF r.st = "throw" /\ IsPyError(r.err)
             THEN Quiet(Throw(runtime_error(<<"Python error in function ", c.name, ": ">>
                                            \o PyWhat(r.err.pyexc))))
             ELSE Quiet(r)

\* py::object PythonInterpreter::execute(code); c.interp is m_initialized
execute(c) ==
    IF ~c.interp
    THEN Quiet(Throw(runtime_error(<<"Python interpreter not initialized">>)))
    ELSE IF c.beh.k = "raise"
    THEN Quiet(Throw(runtime_error(<<"Failed to execute Python code: ">>
                                   \o PyWhat(c.beh.e))))
    ELSE Quiet(Ret(c.beh.v))

\* py::object PythonBridge::executeCode(code); c.usable is the bridge's m_initialized
executeCode(c) ==
    IF ~c.usable
    THEN Quiet(Throw(runtime_error(<<"PythonBridge not initialized">>)))
    ELSE execute(c)

\* py::object PythonBridge::executeFile(path); c.hasFunc: the file exists
executeFile(c) ==
    IF ~c.usable
    THEN Quiet(Throw(runtime_error(<<"PythonBridge not initialized">>)))
    ELSE IF ~c.hasFunc
    THEN Quiet(Throw(runtime_error(<<"File not found: ", c.name>>)))
    ELSE IF c.beh.k = "raise"
    THEN Quiet(Throw(runtime_error(<<"Failed to execute file ", c.name, ": ">>
                                   \o PyWhat(c.beh.e))))
    ELSE Quiet(Ret(DNone))

----------------------------------------------------------------------------
(* ErrorHandler::safeExecute and safeExecuteOptional *)

\* The callable handed to a safe-execution combinator.
\* k: "value" it returns val; "py" it raises the Python exception exc;
\* "native" it throws std::runtime_error(text); "other" it throws a value not
\* derived from std::exception; "typed" it is module->callFunction<R>(...) on c.
Fn(k, val, exc, text, c) == [k |-> k, val |-> val, exc |-> exc, text |-> text, c |-> c]

RunFn(fn) ==
    CASE fn.k = "value" -> Quiet(Ret(fn.val))
      [] fn.k = "py" -> Quiet(Throw(error_already_set(fn.exc)))
      [] fn.k = "native" -> Quiet(Throw(runtime_error(fn.text)))
      [] fn.k = "other" -> Quiet(Throw(non_std_throw))
      [] fn.k = "typed" -> callFunction(fn.c)

\* A record of a native exception that leaves the message out.
NativeInfo_NoMessage(err) == [PythonErrorInfo EXCEPT !.type = "C++ Exception"]

\* PythonErrorInfo info; info.type = "C++ Exception"; info.message = e.what();
NativeInfo(err) ==
    [PythonErrorInfo EXCEPT !.type = "C++ Exception", !.message = err.what]

\* A safeExecute whose std::exception handler raises a wrapped error
\* instead of rethrowing the one it caught.
safeExecute_Wraps(fn) ==
    LET r == RunFn(fn)
    IN  IF r.out.st = "return" THEN r
        ELSE IF IsPyError(r.out.err)
        THEN LET h == handlePythonException(r.out.err.pyexc)
                 c == convertPythonException(r.out.err.pyexc)
             IN  [events |-> r.events \o h.events \o triggerErrorCallbacks(h.info)
                                \o convertPythonExceptionEvents(r.out.err.pyexc),
                  out |-> IF c.st = "throw" THEN c ELSE r.out]
        ELSE IF IsStdException(r.out.err)
        THEN [events |-> r.events \o triggerErrorCallbacks(NativeInfo(r.out.err)),
              out |-> Throw(PythonBridgeException(<<"C++ Exception">>))]
        ELSE r

safeExecute(fn) ==
    LET r == RunFn(fn)
    IN  IF r.out.st = "return" THEN r
        ELSE IF IsPyError(r.out.err)
        THEN LET h == handlePythonException(r.out.err.pyexc)
                 c == convertPythonException(r.out.err.pyexc)
             IN  [events |-> r.events \o h.events \o triggerErrorCallbacks(h.info)
                                \o convertPythonExceptionEvents(r.out.err.pyexc),
                  out |-> IF c.st = "throw" THEN c ELSE r.out]
        ELSE IF IsStdException(r.out.err)
        THEN [events |-> r.events \o triggerErrorCallbacks(NativeInfo(r.out.err)),
              out |-> r.out]
        ELSE r

safeExecuteOptional(fn) ==
    LET r == RunFn(fn)
    IN  IF r.out.st = "return" THEN [events |-> r.events, out |-> Ret(Some(r.out.val))]
        ELSE IF IsPyError(r.out.err)
        THEN LET h == handlePythonException(r.out.err.pyexc)
             IN  [events |-> r.events \o h.events \o triggerErrorCallbacks(h.info),
                  out |-> Ret(NullOpt)]
        ELSE IF IsStdException(r.out.err)
        THEN [events |-> r.events \o triggerErrorCallbacks(NativeInfo(r.out.err)),
              out |-> Ret(NullOpt)]
        ELSE r

----------------------------------------------------------------------------
(* Inputs of the calls *)

\* usable: the module is loaded / the function is valid / the bridge is
\* initialized; hasFunc: the attribute (or file) exists; argsOk: every native
\* argument has a caster; beh: what the callable does; R: the requested
\* return type; interp: the interpreter singleton is initialized.
MkCall(usable, hasFunc, argsOk, beh, R) ==
    [name |-> "target", usable |-> usable, hasFunc |-> hasFunc, argsOk |-> argsOk,
     beh |-> beh, R |-> R, interp |-> TRUE]

\* Returned value and requested return type of the calls that come back.
Returning ==
    {<<DNone, "void">>, <<DInt(1), "int">>, <<DInt(1), "double">>,
     <<DStr("text"), "string">>, <<DStr("text"), "int">>, <<DFloat(1), "int">>}

\* The exceptions the callables raise: every kind, with a complete traceback.
RaisedExceptions == {e \in PyExceptions : e.tb = "full"}

Calls ==
    {MkCall(FALSE, TRUE, TRUE, PyReturns(DNone), "void"),
     MkCall(TRUE, FALSE, TRUE, PyReturns(DNone), "void"),
     MkCall(TRUE, TRUE, FALSE, PyReturns(DNone), "void")}
    \cup {MkCall(TRUE, TRUE, TRUE, PyRaises(e), "double") : e \in RaisedExceptions}
    \cup {MkCall(TRUE, TRUE, TRUE, PyReturns(p[1]), p[2]) : p \in Returning}

\* The other entry points run on fewer inputs.
FewCalls ==
    {c \in Calls :
        /\ c.beh.k = "raise" =>
              c.beh.e \in {PyExc("ValueError", <<"bad input">>, FALSE, "full"),
                           PyExc("ZeroDivisionError", <<"bad input">>, FALSE, "full")}
        /\ c.beh.k = "ret" => c.R \in {"void", "int"}}

ExecuteCalls ==
    FewCalls \cup {[c EXCEPT !.interp = FALSE] : c \in {d \in FewCalls : d.beh.k = "raise"}}

NoExc == PyExc("", <<>>, FALSE, "none")
NoCall == MkCall(FALSE, FALSE, FALSE, PyReturns(DNone), "void")

Fns ==
    {Fn("value", 1, NoExc, <<>>, NoCall),
     Fn("native", 0, NoExc, <<"boom">>, NoCall),
     Fn("native", 0, NoExc, <<>>, NoCall),
     Fn("other", 0, NoExc, <<>>, NoCall)}
    \cup {Fn("py", 0, e, <<>>, NoCall) : e \in RaisedExceptions}
    \cup {Fn("typed", 0, NoExc, <<>>, c) : c \in FewCalls}

\* safeExecuteOptional runs on fewer of them.
FewFns ==
    {fn \in Fns :
        fn.k = "py" => fn.exc \in {PyExc("ValueError", <<"bad input">>, FALSE, "full"),
                                   PyExc("ValueError", <<>>, FALSE, "full")}}

----------------------------------------------------------------------------
(* State machine *)

Init ==
    /\ s_error_callbacks = <<>>
    /\ s_verbose_errors = TRUE
    /\ s_error_logging = TRUE
    /\ s_to_python_converters = {}
    /\ s_from_python_converters = {}
    /\ m_initialized = FALSE
    /\ bridge_initialized = FALSE
    /\ m_modules = {}
    /\ modules = <<>>
    /\ functions = <<>>
    /\ runtime_use = "none"
    /\ scoped_handlers = 0
    /\ op = [name |-> "start", arg |-> "-"]
    /\ events = <<>>
    /\ result = Ret("void")

ErrorConfig == <<s_error_callbacks, s_verbose_errors, s_error_logging>>

Registry == <<s_to_python_converters, s_from_python_converters>>

Lifecycle ==
    <<m_initialized, bridge_initialized, m_modules, modules, functions, runtime_use,
      scoped_handlers>>

SetGlobalErrorCallback ==
    \E cb \in Callbacks :
        /\ s_error_callbacks' = <<cb>>
        /\ op' = [name |-> "setGlobalErrorCallback", arg |-> cb]
        /\ events' = <<>>
        /\ result' = Ret("void")
        /\ UNCHANGED <<s_verbose_errors, s_error_logging>>
        /\ UNCHANGED Registry
        /\ UNCHANGED Lifecycle

AddErrorCallback ==
    \E cb \in Callbacks :
        /\ Len(s_error_callbacks) < MaxCallbacks
        /\ s_error_callbacks' = Append(s_error_callbacks, cb)
        /\ op' = [name |-> "addErrorCallback", arg |-> cb]
        /\ events' = <<>>
        /\ result' = Ret("void")
        /\ UNCHANGED <<s_verbose_errors, s_error_logging>>
        /\ UNCHANGED Registry
        /\ UNCHANGED Lifecycle

ClearErrorCallbacks ==
    /\ s_error_callbacks' = <<>>
    /\ op' = [name |-> "clearErrorCallbacks", arg |-> "-"]
    /\ events' = <<>>
    /\ result' = Ret("void")
    /\ UNCHANGED <<s_verbose_errors, s_error_logging>>
    /\ UNCHANGED Registry
    /\ UNCHANGED Lifecycle

SetVerboseErrors ==
    \E verbose \in BOOLEAN :
        /\ s_verbose_errors' = verbose
        /\ op' = [name |-> "setVerboseErrors", arg |-> verbose]
        /\ events' = <<>>
        /\ result' = Ret("void")
        /\ UNCHANGED <<s_error_callbacks, s_error_logging>>
        /\ UNCHANGED Registry
        /\ UNCHANGED Lifecycle

SetErrorLogging ==
    \E enable \in BOOLEAN :
        /\ s_error_logging' = enable
        /\ op' = [name |-> "setErrorLogging", arg |-> enable]
        /\ events' = <<>>
        /\ result' = Ret("void")
        /\ UNCHANGED <<s_error_callbacks, s_verbose_errors>>
        /\ UNCHANGED Registry
        /\ UNCHANGED Lifecycle

ConvertPythonException ==
    \E e \in PyExceptions :
        /\ op' = [name |-> "convertPythonException", arg |-> e]
        /\ events' = convertPythonExceptionEvents(e)
        /\ result' = convertPythonException(e)
        /\ UNCHANGED ErrorConfig
        /\ UNCHANGED Registry
        /\ UNCHANGED Lifecycle

SafeExecute ==
    \E fn \in Fns :
        LET r == safeExecute(fn) IN
        /\ op' = [name |-> "safeExecute", arg |-> fn]
        /\ events' = r.events
        /\ result' = r.out
        /\ UNCHANGED ErrorConfig
        /\ UNCHANGED Registry
        /\ UNCHANGED Lifecycle

SafeExecuteOptional ==
    \E fn \in FewFns :
        LET r == safeExecuteOptional(fn) IN
        /\ op' = [name |-> "safeExecuteOptional", arg |-> fn]
        /\ events' = r.events
        /\ result' = r.out
        /\ UNCHANGED ErrorConfig
        /\ UNCHANGED Registry
        /\ UNCHANGED Lifecycle

CallFunction ==
    \E c \in Calls :
        LET r == callFunction(c) IN
        /\ op' = [name |-> "callFunction", arg |-> c]
        /\ events' = r.events
        /\ result' = r.out
        /\ UNCHANGED ErrorConfig
        /\ UNCHANGED Registry
        /\ UNCHANGED Lifecycle

FunctionCall ==
    \E c \in FewCalls :
        LET r == call(c) IN
        /\ op' = [name |-> "call", arg |-> c]
        /\ events' = r.events
        /\ result' = r.out
        /\ UNCHANGED ErrorConfig
        /\ UNCHANGED Registry
        /\ UNCHANGED Lifecycle

FunctionOperator ==
    \E c \in FewCalls :
        LET r == operatorCall(c) IN
        /\ op' = [name |-> "operator()", arg |-> c]
        /\ events' = r.events
        /\ result' = r.out
        /\ UNCHANGED ErrorConfig
        /\ UNCHANGED Registry
        /\ UNCHANGED Lifecycle

CallFunctionPy ==
    \E c \in FewCalls :
        LET r == callFunctionPy(c) IN
        /\ op' = [name |-> "callFunctionPy", arg |-> c]
        /\ events' = r.events
        /\ result' = r.out
        /\ UNCHANGED ErrorConfig
        /\ UNCHANGED Registry
        /\ UNCHANGED Lifecycle

CallPy ==
    \E c \in FewCalls :
        LET r == callPy(c) IN
        /\ op' = [name |-> "callPy", arg |-> c]
        /\ events' = r.events
        /\ result' = r.out
        /\ UNCHANGED ErrorConfig
        /\ UNCHANGED Registry
        /\ UNCHANGED Lifecycle

ExecuteCode ==
    \E c \in ExecuteCalls :
        LET r == executeCode(c) IN
        /\ op' = [name |-> "executeCode", arg |-> c]
        /\ events' = r.events
        /\ result' = r.out
        /\ UNCHANGED ErrorConfig
        /\ UNCHANGED Registry
        /\ UNCHANGED Lifecycle

ExecuteFile ==
    \E c \in FewCalls :
        LET r == executeFile(c) IN
        /\ op' = [name |-> "executeFile", arg |-> c]
        /\ events' = r.events
        /\ result' = r.out
        /\ UNCHANGED ErrorConfig
        /\ UNCHANGED Registry
        /\ UNCHANGED Lifecycle

Next ==
    \/ SetGlobalErrorCallback
    \/ AddErrorCallback
    \/ ClearErrorCallbacks
    \/ SetVerboseErrors
    \/ SetErrorLogging
    \/ ConvertPythonException
    \/ SafeExecute
    \/ SafeExecuteOptional
    \/ CallFunction
    \/ FunctionCall
    \/ FunctionOperator
    \/ CallFunctionPy
    \/ CallPy
    \/ ExecuteCode
    \/ ExecuteFile

Spec == Init /\ [][Next]_vars

----------------------------------------------------------------------------
(* Conversion engine: inputs and operations *)

\* A few values of each scalar type, the extremes among them.
Samples(T) ==
    CASE T = "bool" -> BOOLEAN
      [] T = "int" -> {-IntLim, 0, IntLim - 1}
      [] T = "long" -> {-LongLim, IntLim, LongLim - 1}
      [] T = "float" -> {x \in FloatValues : x \in {-2, 0, 2}}
      [] T = "double" -> {-DblLim, 1, DblLim}
      [] T = "string" -> {"", "a", "text"}

DynValues ==
    DynScalars \cup {DList(<<>>), DList(<<DInt(1)>>), DTuple(<<DInt(1)>>), DDict(<<>>)}

Vectors(T) == UNION {[1..n -> Samples(T)] : n \in 0..MaxLen}

MapKeyTypes == {"string", "int"}
MapValueTypes == {"int", "double"}
Maps(K, V) ==
    UNION {[keys -> Samples(V)] : keys \in {S \in SUBSET Samples(K) : Cardinality(S) <= MaxLen}}

\* The orders in which a dict of n entries may hand out its items.
Orders(n) == {p \in [1..n -> 1..n] : \A i, j \in 1..n : p[i] = p[j] => i = j}
Reordered(obj, p) == [obj EXCEPT !.items = [i \in 1..Len(obj.items) |-> obj.items[p[i]]]]

TupleSignatures == {<<"int", "string">>, <<"bool", "double", "long">>, <<"float">>}
RECURSIVE TuplesUpTo(_, _)
TuplesUpTo(Ts, n) ==
    IF n = 0 THEN {<<>>}
    ELSE {Append(t, v) : t \in TuplesUpTo(Ts, n - 1), v \in Samples(Ts[n])}
Tuples(Ts) == TuplesUpTo(Ts, Len(Ts))

FromPython ==
    \E T \in ScalarTypes : \E obj \in DynValues :
        /\ op' = [name |-> "fromPython", T |-> T, obj |-> obj]
        /\ events' = <<>>
        /\ result' = fromPython(T, obj)
        /\ UNCHANGED ErrorConfig
        /\ UNCHANGED Registry
        /\ UNCHANGED Lifecycle

CanConvert ==
    \E T \in ScalarTypes : \E obj \in DynValues :
        /\ op' = [name |-> "canConvert", T |-> T, obj |-> obj]
        /\ events' = <<>>
        /\ result' = canConvert(T, obj)
        /\ UNCHANGED ErrorConfig
        /\ UNCHANGED Registry
        /\ UNCHANGED Lifecycle

\* toPython<T>(v), then fromPython<T> and canConvert<T> on what it returned
ScalarRoundTrip ==
    \E T \in ScalarTypes : \E v \in NativeValues(T) :
        /\ op' = [name |-> "scalarRoundTrip", T |-> T, v |-> v]
        /\ events' = <<>>
        /\ result' = [st |-> "done", obj |-> toPython(T, v),
                      back |-> fromPython(T, toPython(T, v)),
                      can |-> canConvert(T, toPython(T, v))]
        /\ UNCHANGED ErrorConfig
        /\ UNCHANGED Registry
        /\ UNCHANGED Lifecycle

VectorRoundTrip ==
    \E T \in ScalarTypes : \E v \in Vectors(T) :
        /\ op' = [name |-> "vectorRoundTrip", T |-> T, v |-> v]
        /\ events' = <<>>
        /\ result' = vectorFromPython(T, vectorToPython(T, v))
        /\ UNCHANGED ErrorConfig
        /\ UNCHANGED Registry
        /\ UNCHANGED Lifecycle

\* mapToPython<K, V>(m), then mapFromPython<K, V> on the dict, which may
\* hand out its items in any order p
MapRoundTrip ==
    \E K \in MapKeyTypes, V \in MapValueTypes : \E m \in Maps(K, V) :
        \E p \in Orders(Cardinality(DOMAIN m)) :
            /\ op' = [name |-> "mapRoundTrip", K |-> K, V |-> V, m |-> m, p |-> p]
            /\ events' = <<>>
            /\ result' = mapFromPython(K, V, Reordered(mapToPython(K, V, m), p))
            /\ UNCHANGED ErrorConfig
            /\ UNCHANGED Registry
            /\ UNCHANGED Lifecycle

TupleRoundTrip ==
    \E Ts \in TupleSignatures : \E t \in Tuples(Ts) :
        /\ op' = [name |-> "tupleRoundTrip", Ts |-> Ts, t |-> t]
        /\ events' = <<>>
        /\ result' = tupleFromPython(Ts, tupleToPython(Ts, t))
        /\ UNCHANGED ErrorConfig
        /\ UNCHANGED Registry
        /\ UNCHANGED Lifecycle

OptionalRoundTrip ==
    \E T \in ScalarTypes : \E has \in BOOLEAN, v \in Samples(T) :
        LET o == IF has THEN Some(v) ELSE NullOpt IN
        /\ op' = [name |-> "optionalRoundTrip", T |-> T, o |-> o]
        /\ events' = <<>>
        /\ result' = [st |-> "done", obj |-> optionalToPython(T, o),
                      back |-> optionalFromPython(T, optionalToPython(T, o))]
        /\ UNCHANGED ErrorConfig
        /\ UNCHANGED Registry
        /\ UNCHANGED Lifecycle

\* Dynamic sequences for a signature: the tuple of a native value, its
\* prefixes, the same with one more item, and the same items in a list.
SequencesFor(Ts) ==
    LET full == {tupleToPython(Ts, t).items : t \in {u \in Tuples(Ts) : \A i \in 1..Len(Ts) : u[i] = CHOOSE v \in Samples(Ts[i]) : TRUE}}
        cut == {SubSeq(f, 1, n) : f \in full, n \in 0..Len(Ts)}
        items == cut \cup {Append(f, DInt(0)) : f \in full}
    IN  {DTuple(i) : i \in items} \cup {DList(i) : i \in items}

TupleFromPython ==
    \E Ts \in TupleSignatures : \E obj \in SequencesFor(Ts) :
        /\ op' = [name |-> "tupleFromPython", Ts |-> Ts, obj |-> obj]
        /\ events' = <<>>
        /\ result' = tupleFromPython(Ts, obj)
        /\ UNCHANGED ErrorConfig
        /\ UNCHANGED Registry
        /\ UNCHANGED Lifecycle

\* Dynamic values handed to vectorFromPython: lists of mixed elements, and
\* values that are no list.
ListItems == {DInt(1), DInt(0), DStr("a"), DFloat(1)}
ListInputs ==
    {DList(items) : items \in UNION {[1..n -> ListItems] : n \in 0..MaxLen}}
    \cup {DTuple(<<DInt(1)>>), DInt(1), DNone}

VectorFromPython ==
    \E T \in ScalarTypes : \E obj \in ListInputs :
        /\ op' = [name |-> "vectorFromPython", T |-> T, obj |-> obj]
        /\ events' = <<>>
        /\ result' = vectorFromPython(T, obj)
        /\ UNCHANGED ErrorConfig
        /\ UNCHANGED Registry
        /\ UNCHANGED Lifecycle

\* vectorFromPython on its own
VecSpec == Init /\ [][VectorFromPython]_vars

ConvNext ==
    \/ TupleFromPython
    \/ FromPython
    \/ CanConvert
    \/ ScalarRoundTrip
    \/ VectorRoundTrip
    \/ MapRoundTrip
    \/ TupleRoundTrip
    \/ OptionalRoundTrip

ConvSpec == Init /\ [][ConvNext]_vars

----------------------------------------------------------------------------
(* Custom converters: inputs and operations *)

ValuesOf(T) == IF T = "Point" THEN PointValues ELSE Samples(T)

\* The converters registered for T: every one for Point, the documented
\* one for int.
ToConvertersOf(T) == IF T = "Point" THEN ToConverters ELSE {"asTuple"}
FromConvertersOf(T) == IF T = "Point" THEN FromConverters ELSE {"asTuple"}

\* Dynamic values handed to the conversions of T: the members of a native
\* value in a tuple and in a list, a tuple that is too short, a member of
\* the wrong type, and values that are no sequence.
ObjectsFor(T) ==
    LET items == {tupleToPython(Shape(T), Members(T, v)).items : v \in ValuesOf(T)}
    IN  {DTuple(i) : i \in items} \cup {DList(i) : i \in items}
        \cup {DTuple(<<>>), DTuple([i \in 1..Len(Shape(T)) |-> DStr("text")]),
              DInt(1), DStr("text"), DNone}

RegisterToPython ==
    \E T \in RegisteredTypes : \E converter \in ToConvertersOf(T) :
        /\ s_to_python_converters' = MapAssign(s_to_python_converters, T, converter)
        /\ op' = [name |-> "registerToPython", T |-> T, converter |-> converter]
        /\ events' = <<>>
        /\ result' = Ret("void")
        /\ UNCHANGED <<s_from_python_converters, ErrorConfig>>
        /\ UNCHANGED Lifecycle

RegisterFromPython ==
    \E T \in RegisteredTypes : \E converter \in FromConvertersOf(T) :
        /\ s_from_python_converters' = MapAssign(s_from_python_converters, T, converter)
        /\ op' = [name |-> "registerFromPython", T |-> T, converter |-> converter]
        /\ events' = <<>>
        /\ result' = Ret("void")
        /\ UNCHANGED <<s_to_python_converters, ErrorConfig>>
        /\ UNCHANGED Lifecycle

ToPythonOf ==
    \E T \in RegisteredTypes : \E v \in ValuesOf(T) :
        /\ op' = [name |-> "toPython", T |-> T, v |-> v]
        /\ events' = <<>>
        /\ result' = toPythonOf(T, v)
        /\ UNCHANGED <<ErrorConfig, Registry>>
        /\ UNCHANGED Lifecycle

FromPythonOf ==
    \E T \in RegisteredTypes : \E obj \in ObjectsFor(T) :
        /\ op' = [name |-> "fromPython", T |-> T, obj |-> obj]
        /\ events' = <<>>
        /\ result' = fromPythonOf(T, obj)
        /\ UNCHANGED <<ErrorConfig, Registry>>
        /\ UNCHANGED Lifecycle

CanConvertOf ==
    \E T \in RegisteredTypes : \E obj \in ObjectsFor(T) :
        /\ op' = [name |-> "canConvert", T |-> T, obj |-> obj]
        /\ events' = <<>>
        /\ result' = canConvert(T, obj)
        /\ UNCHANGED <<ErrorConfig, Registry>>
        /\ UNCHANGED Lifecycle

SafeCast ==
    \E T \in RegisteredTypes : \E obj \in ObjectsFor(T) :
        /\ op' = [name |-> "safeCast", T |-> T, obj |-> obj]
        /\ events' = <<>>
        /\ result' = safeCast(T, obj)
        /\ UNCHANGED <<ErrorConfig, Registry>>
        /\ UNCHANGED Lifecycle

\* func(std::forward<Args>(args)...): the binding layer's own caster turns
\* each native argument into a py::object, or fails for a class it does not
\* know.
ArgumentCast(T, value) ==
    IF T \in ScalarTypes THEN Ret(toPython(T, value))
    ELSE Throw(cast_error(<<"make_tuple(): unable to convert argument">>))

\* module->callFunction<T>("process", v) on a Python function that returns
\* its argument.
CallWithCustomType ==
    \E T \in RegisteredTypes : \E v \in ValuesOf(T) :
        LET arg == ArgumentCast(T, v)
            received == IF arg.st = "return" THEN arg.val ELSE DNull
            c == MkCall(TRUE, TRUE, arg.st = "return", PyReturns(received), T)
            r == callFunction(c)
        IN  /\ op' = [name |-> "callWithCustomType", T |-> T, v |-> v,
                      called |-> arg.st = "return", received |-> received]
            /\ events' = r.events
            /\ result' = r.out
            /\ UNCHANGED <<ErrorConfig, Registry>>
            /\ UNCHANGED Lifecycle

RegNext ==
    \/ CallWithCustomType
    \/ RegisterToPython
    \/ RegisterFromPython
    \/ ToPythonOf
    \/ FromPythonOf
    \/ CanConvertOf
    \/ SafeCast
    \/ SetGlobalErrorCallback

RegSpec == Init /\ [][RegNext]_vars

----------------------------------------------------------------------------
(* PythonInterpreter, PythonModule, PythonFunction and PythonBridge objects *)

\* The modules on the search path and the functions they define.
ModuleNames == {"test_module", "missing_module"}
FunctionNames == {"test_function", "nonexistent_function"}
Importable(module_name) == module_name # "missing_module"
HasAttribute(module_name, func_name) == func_name = "test_function"

\* Most PythonModule and PythonFunction objects the model constructs.
MaxObjects == 2

\* How starting the runtime may end: it starts and sys.path takes ".", the
\* runtime refuses to start, or it starts and the sys.path step raises.
StartOutcomes == {"ok", "no_runtime", "path_fails"}

\* What a use of a py::object of a finalized runtime may do: end the
\* process, behave as if the object were alive, or report a Python error.
StaleOutcomes == {"crash", "proceeds", "raises"}
Crash == [st |-> "crash"]
StaleError == PyExc("SystemError", <<"bad input">>, FALSE, "none")

\* The objects as one value, handed through the operations that call one
\* another.  A shared_ptr is the position of its object in modules or in
\* functions, 0 when null; a py::object is "null", "handle" or, once its
\* runtime is finalized, "dangling".
Objects ==
    [m_initialized |-> m_initialized, bridge_initialized |-> bridge_initialized,
     m_modules |-> m_modules, modules |-> modules, functions |-> functions,
     runtime_use |-> "none"]

Done(S, out) == [S |-> S, out |-> out]

\* The operation reaches the runtime, which is live or finalized.
Touch(S, live) ==
    [S EXCEPT !.runtime_use =
        IF @ = "finalized" \/ ~live THEN "finalized" ELSE "live"]

\* void PythonInterpreter::initialize()
initialize(S, how) ==
    IF S.m_initialized THEN Done(S, Ret("void"))
    ELSE IF how = "no_runtime"
    THEN Done(S, Throw(runtime_error(<<"The interpreter is already running">>)))
    ELSE LET T == Touch([S EXCEPT !.m_initialized = TRUE], TRUE)
         IN  IF how = "path_fails"
             THEN Done(T, Throw(error_already_set(
                          PyExc("TypeError", <<"bad input">>, FALSE, "none"))))
             ELSE Done(T, Ret("void"))

Finalized(h) == IF h = "handle" THEN "dangling" ELSE h

\* void PythonInterpreter::finalize(); the runtime's objects go with it.
finalize(S) ==
    IF ~S.m_initialized THEN S
    ELSE [Touch(S, TRUE) EXCEPT
             !.m_initialized = FALSE,
             !.modules = [i \in 1..Len(@) |-> [@[i] EXCEPT !.m_module = Finalized(@)]],
             !.functions = [i \in 1..Len(@) |-> [@[i] EXCEPT !.m_function = Finalized(@)]]]

\* void PythonInterpreter::addModulePath(path); the path list is the runtime's.
addModulePath(S, path) ==
    IF ~S.m_initialized
    THEN Done(S, Throw(runtime_error(<<"Python interpreter not initialized">>)))
    ELSE Done(Touch(S, TRUE), Ret("void"))

\* py::object PythonInterpreter::execute(code) on the interpreter singleton
interpreterExecute(S, c) ==
    Done(IF S.m_initialized THEN Touch(S, TRUE) ELSE S,
         execute([c EXCEPT !.interp = S.m_initialized]).out)

\* PythonModule::PythonModule(module_name); returns the new object.
PythonModule(S, module_name, how) ==
    LET i == initialize(S, how) IN
    IF i.out.st = "throw" THEN i
    ELSE LET loaded == Importable(module_name)
             obj == [m_module_name |-> module_name,
                     m_module |-> IF loaded THEN "handle" ELSE "null",
                     m_loaded |-> loaded]
             T == Touch(i.S, TRUE)
         IN  Done([T EXCEPT !.modules = Append(@, obj)], Ret(Len(T.modules) + 1))

\* bool PythonModule::hasFunction(func_name) const
hasFunction(S, m, func_name, stale) ==
    LET obj == S.modules[m] IN
    IF ~obj.m_loaded THEN Done(S, Ret(FALSE))
    ELSE IF obj.m_module = "handle"
    THEN Done(Touch(S, TRUE), Ret(HasAttribute(obj.m_module_name, func_name)))
    ELSE Done(Touch(S, FALSE),
              CASE stale = "crash" -> Crash
                [] stale = "raises" -> Ret(FALSE)
                [] OTHER -> Ret(HasAttribute(obj.m_module_name, func_name)))

\* py::object PythonModule::getAttribute(attr_name)
getAttribute(S, m, attr_name, stale) ==
    LET obj == S.modules[m]
        found == HasAttribute(obj.m_module_name, attr_name)
        failed == Throw(runtime_error(<<"Failed to get attribute ", attr_name,
                                         " from ", obj.m_module_name, ": ">>
                                      \o PyWhat(MissingAttribute)))
    IN  IF ~obj.m_loaded
        THEN Done(S, Throw(runtime_error(<<"Module not loaded: ", obj.m_module_name>>)))
        ELSE IF obj.m_module = "handle"
        THEN Done(Touch(S, TRUE), IF found THEN Ret("handle") ELSE failed)
        ELSE Done(Touch(S, FALSE),
                  CASE stale = "crash" -> Crash
                    [] stale = "raises" -> failed
                    [] OTHER -> Ret("dangling"))

\* PythonFunction::PythonFunction(std::shared_ptr<PythonModule>, func_name)
PythonFunction(S, m, func_name, stale) ==
    LET has == IF m # 0 /\ S.modules[m].m_loaded
               THEN hasFunction(S, m, func_name, stale)
               ELSE Done(S, Ret(FALSE))
        found == has.out.st = "return" /\ has.out.val
        got == IF found THEN getAttribute(has.S, m, func_name, stale)
               ELSE Done(has.S, Ret("null"))
        valid == found /\ got.out.st = "return"
        obj == [m_module |-> m, m_func_name |-> func_name,
                m_function |-> IF valid THEN got.out.val ELSE "null",
                m_valid |-> valid]
    IN  IF has.out.st = "crash" \/ got.out.st = "crash" THEN Done(got.S, Crash)
        ELSE Done([got.S EXCEPT !.functions = Append(@, obj)],
                  Ret(Len(got.S.functions) + 1))

\* bool PythonBridge::initialize(module_paths)
bridgeInitialize(S, module_paths, how) ==
    LET i == initialize(S, how)
        added == IF i.out.st = "throw" \/ module_paths = <<>> THEN i
                 ELSE addModulePath(i.S, module_paths[1])
    IN  IF added.out.st = "throw"
        THEN Done([added.S EXCEPT !.bridge_initialized = FALSE], Ret(FALSE))
        ELSE Done([added.S EXCEPT !.bridge_initialized = TRUE], Ret(TRUE))

\* loadModule without the isLoaded() test before the insertion
loadModule_CachesFailures(S, module_name, how) ==
    IF ~S.bridge_initialized
    THEN Done(S, Throw(runtime_error(<<"PythonBridge not initialized">>)))
    ELSE IF MapHas(S.m_modules, module_name)
    THEN Done(S, Ret(MapAt(S.m_modules, module_name)))
    ELSE LET made == PythonModule(S, module_name, how) IN
         IF made.out.st = "throw" THEN made
         ELSE Done([made.S EXCEPT !.m_modules = MapAssign(@, module_name, made.out.val)],
                   made.out)

\* std::shared_ptr<PythonModule> PythonBridge::loadModule(module_name)
loadModule(S, module_name, how) ==
    IF ~S.bridge_initialized
    THEN Done(S, Throw(runtime_error(<<"PythonBridge not initialized">>)))
    ELSE IF MapHas(S.m_modules, module_name)
    THEN Done(S, Ret(MapAt(S.m_modules, module_name)))
    ELSE LET made == PythonModule(S, module_name, how) IN
         IF made.out.st = "throw" THEN made
         ELSE IF made.S.modules[made.out.val].m_loaded
         THEN Done([made.S EXCEPT !.m_modules = MapAssign(@, module_name, made.out.val)],
                   made.out)
         ELSE Done([made.S EXCEPT !.modules = S.modules], Ret(0))

\* std::shared_ptr<PythonModule> PythonBridge::getModule(module_name)
getModule(S, module_name) ==
    Done(S, Ret(IF MapHas(S.m_modules, module_name)
                THEN MapAt(S.m_modules, module_name) ELSE 0))

\* std::shared_ptr<PythonFunction> PythonBridge::createFunction(module_name, func_name)
createFunction(S, module_name, func_name, how, stale) ==
    LET module == loadModule(S, module_name, how) IN
    IF module.out.st = "throw" THEN module
    ELSE IF module.out.val = 0 THEN Done(module.S, Ret(0))
    ELSE PythonFunction(module.S, module.out.val, func_name, stale)

\* What a typed call does once its guard has passed, for the outcome of a
\* use of a finalized runtime's object.
StaleCall(c, stale, body(_)) ==
    CASE stale = "crash" -> Quiet(Crash)
      [] stale = "raises" -> body([c EXCEPT !.beh = PyRaises(StaleError)])
      [] OTHER -> body(c)

\* modules[m]->callFunction<int>(func_name, 1), the function returning 1
moduleCallFunction(S, m, func_name, stale) ==
    LET obj == S.modules[m]
        c == [MkCall(obj.m_loaded, HasAttribute(obj.m_module_name, func_name), TRUE,
                     PyReturns(DInt(1)), "int") EXCEPT !.name = obj.m_module_name]
    IN  IF ~obj.m_loaded THEN [S |-> S, r |-> callFunction(c)]
        ELSE IF obj.m_module = "handle" THEN [S |-> Touch(S, TRUE), r |-> callFunction(c)]
        ELSE [S |-> Touch(S, FALSE), r |-> StaleCall(c, stale, callFunction)]

\* functions[f]->call<int>(1), the function returning 1
functionCall(S, f, stale) ==
    LET obj == S.functions[f]
        c == [MkCall(obj.m_valid, TRUE, TRUE, PyReturns(DInt(1)), "int")
                 EXCEPT !.name = obj.m_func_name]
    IN  IF ~obj.m_valid THEN [S |-> S, r |-> call(c)]
        ELSE IF obj.m_function = "handle" THEN [S |-> Touch(S, TRUE), r |-> call(c)]
        ELSE [S |-> Touch(S, FALSE), r |-> StaleCall(c, stale, call)]

\* functions[f]->operator()<int>(1)
functionOperator(S, f, stale) ==
    LET obj == S.functions[f]
        c == [MkCall(obj.m_valid, TRUE, TRUE, PyReturns(DInt(1)), "int")
                 EXCEPT !.name = obj.m_func_name]
    IN  IF ~obj.m_valid THEN [S |-> S, r |-> operatorCall(c)]
        ELSE IF obj.m_function = "handle" THEN [S |-> Touch(S, TRUE), r |-> operatorCall(c)]
        ELSE [S |-> Touch(S, FALSE), r |-> StaleCall(c, stale, operatorCall)]

----------------------------------------------------------------------------
(* Object lifecycle: state machine *)

\* The process has not been ended by a use of a finalized runtime.
Running == result.st # "crash"

\* The outcomes open to an operation: a start is tried only when the
\* interpreter is not initialized, a finalized runtime's object is used only
\* when there is one.
Starts == IF m_initialized THEN {"ok"} ELSE StartOutcomes
StaleOf(h) == IF h = "dangling" THEN StaleOutcomes ELSE {"proceeds"}

Becomes(S) ==
    /\ m_initialized' = S.m_initialized
    /\ bridge_initialized' = S.bridge_initialized
    /\ m_modules' = S.m_modules
    /\ modules' = S.modules
    /\ functions' = S.functions
    /\ runtime_use' = S.runtime_use
    /\ Len(S.modules) + Len(S.functions) <= MaxObjects
    /\ UNCHANGED <<scoped_handlers, ErrorConfig, Registry>>

ExecuteInputs ==
    {MkCall(TRUE, TRUE, TRUE, PyReturns(DInt(1)), "int"),
     MkCall(TRUE, TRUE, TRUE, PyRaises(PyExc("ValueError", <<"bad input">>, FALSE, "full")), "int")}

InterpreterInitialize ==
    \E how \in Starts :
        LET r == initialize(Objects, how) IN
        /\ Running
        /\ Becomes(r.S)
        /\ op' = [name |-> "initialize", how |-> how]
        /\ events' = <<>>
        /\ result' = r.out

InterpreterFinalize ==
    /\ Running
    /\ Becomes(finalize(Objects))
    /\ op' = [name |-> "finalize"]
    /\ events' = <<>>
    /\ result' = Ret("void")

AddModulePath ==
    LET r == addModulePath(Objects, "./test_path") IN
    /\ Running
    /\ Becomes(r.S)
    /\ op' = [name |-> "addModulePath", path |-> "./test_path"]
    /\ events' = <<>>
    /\ result' = r.out

InterpreterExecute ==
    \E c \in ExecuteInputs :
        LET r == interpreterExecute(Objects, c) IN
        /\ Running
        /\ Becomes(r.S)
        /\ op' = [name |-> "execute", c |-> c]
        /\ events' = <<>>
        /\ result' = r.out

ConstructModule ==
    \E module_name \in ModuleNames, how \in Starts :
        LET r == PythonModule(Objects, module_name, how) IN
        /\ Running
        /\ Becomes(r.S)
        /\ op' = [name |-> "PythonModule", module_name |-> module_name, how |-> how]
        /\ events' = <<>>
        /\ result' = r.out

ConstructFunction ==
    \E m \in 0..Len(modules), func_name \in FunctionNames :
      \E stale \in StaleOf(IF m = 0 THEN "null" ELSE modules[m].m_module) :
        LET r == PythonFunction(Objects, m, func_name, stale) IN
        /\ Running
        /\ Becomes(r.S)
        /\ op' = [name |-> "PythonFunction", m |-> m, func_name |-> func_name,
                  stale |-> stale]
        /\ events' = <<>>
        /\ result' = r.out

BridgeInitialize ==
    \E module_paths \in {<<>>, <<"./python_scripts">>}, how \in Starts :
        LET r == bridgeInitialize(Objects, module_paths, how) IN
        /\ Running
        /\ Becomes(r.S)
        /\ op' = [name |-> "bridgeInitialize", module_paths |-> module_paths, how |-> how]
        /\ events' = <<>>
        /\ result' = r.out

LoadModule ==
    \E module_name \in ModuleNames, how \in Starts :
        LET r == loadModule(Objects, module_name, how) IN
        /\ Running
        /\ Becomes(r.S)
        /\ op' = [name |-> "loadModule", module_name |-> module_name, how |-> how]
        /\ events' = <<>>
        /\ result' = r.out

GetModule ==
    \E module_name \in ModuleNames :
        LET r == getModule(Objects, module_name) IN
        /\ Running
        /\ Becomes(r.S)
        /\ op' = [name |-> "getModule", module_name |-> module_name]
        /\ events' = <<>>
        /\ result' = r.out

CreateFunction ==
    \E module_name \in ModuleNames, func_name \in FunctionNames :
        \E how \in Starts :
          \E stale \in StaleOf(IF MapHas(m_modules, module_name)
                                THEN modules[MapAt(m_modules, module_name)].m_module
                                ELSE "null") :
            LET r == createFunction(Objects, module_name, func_name, how, stale) IN
            /\ Running
            /\ Becomes(r.S)
            /\ op' = [name |-> "createFunction", module_name |-> module_name,
                      func_name |-> func_name, how |-> how, stale |-> stale]
            /\ events' = <<>>
            /\ result' = r.out

ModuleCallFunction ==
    \E m \in 1..Len(modules), func_name \in FunctionNames :
      \E stale \in StaleOf(modules[m].m_module) :
        LET r == moduleCallFunction(Objects, m, func_name, stale) IN
        /\ Running
        /\ Becomes(r.S)
        /\ op' = [name |-> "callFunction", m |-> m, func_name |-> func_name,
                  stale |-> stale]
        /\ events' = r.r.events
        /\ result' = r.r.out

FunctionCallOn ==
    \E f \in 1..Len(functions) : \E stale \in StaleOf(functions[f].m_function) :
        LET r == functionCall(Objects, f, stale) IN
        /\ Running
        /\ Becomes(r.S)
        /\ op' = [name |-> "call", f |-> f, stale |-> stale]
        /\ events' = r.r.events
        /\ result' = r.r.out

FunctionOperatorOn ==
    \E f \in 1..Len(functions) : \E stale \in StaleOf(functions[f].m_function) :
        LET r == functionOperator(Objects, f, stale) IN
        /\ Running
        /\ Becomes(r.S)
        /\ op' = [name |-> "operator()", f |-> f, stale |-> stale]
        /\ events' = r.r.events
        /\ result' = r.r.out

LifeNext ==
    \/ InterpreterInitialize
    \/ InterpreterFinalize
    \/ AddModulePath
    \/ InterpreterExecute
    \/ ConstructModule
    \/ ConstructFunction
    \/ BridgeInitialize
    \/ LoadModule
    \/ GetModule
    \/ CreateFunction
    \/ ModuleCallFunction
    \/ FunctionCallOn
    \/ FunctionOperatorOn

LifeSpec == Init /\ [][LifeNext]_vars

----------------------------------------------------------------------------
(* ScopedErrorHandler *)

\* Most ScopedErrorHandler objects alive at once.
MaxScoped == 1

\* The callback handed to every ScopedErrorHandler; registered in no other way.
ScopedCallback == "scoped"

\* ScopedErrorHandler::ScopedErrorHandler(callback)
ScopedConstruct ==
    /\ scoped_handlers < MaxScoped
    /\ Len(s_error_callbacks) < MaxCallbacks
    /\ s_error_callbacks' = Append(s_error_callbacks, ScopedCallback)
    /\ scoped_handlers' = scoped_handlers + 1
    /\ op' = [name |-> "ScopedErrorHandler", arg |-> ScopedCallback]
    /\ events' = <<>>
    /\ result' = Ret("void")
    /\ UNCHANGED <<s_verbose_errors, s_error_logging>>
    /\ UNCHANGED Registry
    /\ UNCHANGED <<m_initialized, bridge_initialized, m_modules, modules, functions,
                   runtime_use>>

\* ScopedErrorHandler::~ScopedErrorHandler(): the body of its if is empty.
ScopedDestroy ==
    /\ scoped_handlers > 0
    /\ scoped_handlers' = scoped_handlers - 1
    /\ op' = [name |-> "~ScopedErrorHandler", arg |-> ScopedCallback]
    /\ events' = <<>>
    /\ result' = Ret("void")
    /\ UNCHANGED ErrorConfig
    /\ UNCHANGED Registry
    /\ UNCHANGED <<m_initialized, bridge_initialized, m_modules, modules, functions,
                   runtime_use>>

ScopeNext ==
    \/ ScopedConstruct
    \/ ScopedDestroy
    \/ AddErrorCallback
    \/ ClearErrorCallbacks
    \/ SafeExecute

ScopeSpec == Init /\ [][ScopeNext]_vars

----------------------------------------------------------------------------
(* Callbacks that change the callback list while a fan-out runs *)

\* "adder" calls addErrorCallback(log2), "clearer" clearErrorCallbacks(),
\* "setter" setGlobalErrorCallback(log2).
ReentrantCallbacks == {"adder", "clearer", "setter"}

\* s_error_callbacks after the callback has run.
AfterCallback(cb, cbs) ==
    CASE cb = "adder" -> Append(cbs, "log2")
      [] cb = "clearer" -> <<>>
      [] cb = "setter" -> <<"log2">>
      [] OTHER -> cbs

\* for (const auto &callback : s_error_callbacks) over the elements begun,
\* the ones between the loop's begin and end iterators; cbs is the vector
\* as the callbacks have left it.  clear() and push_back() invalidate the
\* loop's iterators (intact = FALSE): what visiting the next element then
\* does is the outcome stale, a destroyed std::function ending the process,
\* running as before, or throwing std::bad_function_call into the catch.
RECURSIVE triggerReentrant(_, _, _, _, _, _)
triggerReentrant(begun, i, cbs, intact, info, stale) ==
    IF i > Len(begun) THEN [events |-> <<>>, callbacks |-> cbs, st |-> "done"]
    ELSE IF ~intact /\ stale = "crash"
    THEN [events |-> <<>>, callbacks |-> cbs, st |-> "crash"]
    ELSE IF ~intact /\ stale = "raises"
    THEN LET rest == triggerReentrant(begun, i + 1, cbs, intact, info, stale)
         IN  [rest EXCEPT !.events = <<CallbackErrorEvent(begun[i], info)>> \o @]
    ELSE LET rest == triggerReentrant(begun, i + 1, AfterCallback(begun[i], cbs),
                                      intact /\ begun[i] \notin ReentrantCallbacks,
                                      info, stale)
         IN  [rest EXCEPT !.events =
                 <<CallbackEvent(begun[i], info)>>
                 \o (IF CallbackRaises(begun[i])
                     THEN <<CallbackErrorEvent(begun[i], info)>> ELSE <<>>)
                 \o @]

AddReentrantCallback ==
    \E cb \in ReentrantCallbacks :
        /\ Running
        /\ Len(s_error_callbacks) < MaxCallbacks
        /\ s_error_callbacks' = Append(s_error_callbacks, cb)
        /\ op' = [name |-> "addErrorCallback", arg |-> cb]
        /\ events' = <<>>
        /\ result' = Ret("void")
        /\ UNCHANGED <<s_verbose_errors, s_error_logging>>
        /\ UNCHANGED Registry
        /\ UNCHANGED Lifecycle

\* safeExecute of a function that throws std::runtime_error("boom"): the
\* catch of std::exception fans the record out and rethrows.
SafeExecuteReentrant ==
    \E stale \in (IF \E i \in 1..Len(s_error_callbacks) :
                        s_error_callbacks[i] \in ReentrantCallbacks
                  THEN StaleOutcomes ELSE {"proceeds"}) :
        LET err == runtime_error(<<"boom">>)
            r == triggerReentrant(s_error_callbacks, 1, s_error_callbacks, TRUE,
                                  NativeInfo(err), stale)
        IN  /\ Running
            /\ Len(r.callbacks) <= MaxCallbacks
            /\ s_error_callbacks' = r.callbacks
            /\ op' = [name |-> "safeExecute", callbacks |-> s_error_callbacks,
                      stale |-> stale]
            /\ events' = r.events
            /\ result' = IF r.st = "crash" THEN Crash ELSE Throw(err)
            /\ UNCHANGED <<s_verbose_errors, s_error_logging>>
            /\ UNCHANGED Registry
            /\ UNCHANGED Lifecycle

ReentryNext ==
    \/ (Running /\ AddErrorCallback)
    \/ AddReentrantCallback
    \/ (Running /\ ClearErrorCallbacks)
    \/ SafeExecuteReentrant

ReentrySpec == Init /\ [][ReentryNext]_vars

----------------------------------------------------------------------------
(* What the last operation did, read off the recorded events *)

CallbackRuns == SelectSeq(events, LAMBDA ev : ev.ev = "callback")

\* The callbacks invoked, in the order of their invocation.
CallbackOrder == [i \in 1..Len(CallbackRuns) |-> CallbackRuns[i].cb]

\* The same, counting only the invocations that received a record of kind k.
CallbackOrderOfKind(k) ==
    LET runs == SelectSeq(events, LAMBDA ev : ev.ev = "callback" /\ ev.info.type = k)
    IN  [i \in 1..Len(runs) |-> runs[i].cb]

\* The Python exception a typed call on c meets, if it meets one.
CallRaisesPython(c) == c.usable /\ (~c.hasFunc \/ (c.argsOk /\ c.beh.k = "raise"))
CallPythonException(c) == IF ~c.hasFunc THEN MissingAttribute ELSE c.beh.e

\* The callable fails with a Python exception, raised in it or in the typed
\* call it makes.
FnRaisesPython(fn) == fn.k = "py" \/ (fn.k = "typed" /\ CallRaisesPython(fn.c))
FnPythonException(fn) == IF fn.k = "py" THEN fn.exc ELSE CallPythonException(fn.c)

TypedCallNames == {"callFunction", "call", "operator()"}
UntypedCallNames == {"callFunctionPy", "callPy", "executeCode", "executeFile"}

\* The kind-to-tag table of the specification.
TagOfKind(kind) ==
    IF kind \in {"ModuleNotFoundError", "ImportError"} THEN "PythonModuleException"
    ELSE IF kind = "AttributeError" THEN "PythonFunctionException"
    ELSE IF kind \in {"TypeError", "ValueError"} THEN "TypeConversionException"
    ELSE "PythonBridgeException"

----------------------------------------------------------------------------
(* Claims *)

\* C1: safeExecuteOptional on a callable that fails with a Python exception
\* returns absence, raises nothing, and invokes every registered callback
\* exactly once.
C1_OptionalInvokesCallbacksOnce ==
    (op.name = "safeExecuteOptional" /\ FnRaisesPython(op.arg)) =>
        /\ result.st = "return"
        /\ ~result.val.has
        /\ CallbackOrder = s_error_callbacks

\* C2: one Python error handled by a typed call or by safeExecute invokes the
\* registered callbacks exactly once each, in registration order, also when
\* one of them raises.
C2_FanOutOnceInOrder ==
    /\ (op.name \in TypedCallNames /\ CallRaisesPython(op.arg)) =>
            CallbackOrder = s_error_callbacks
    /\ (op.name = "safeExecute" /\ FnRaisesPython(op.arg)) =>
            CallbackOrder = s_error_callbacks

\* C3: convertPythonException always raises, and the class of the error it
\* raises is decided by the extracted kind alone, by exact match; every kind
\* outside the table gives the generic PythonBridgeException whose text is
\* the formatted record.
C3_KindDecidesTag ==
    op.name = "convertPythonException" =>
        LET info == extractPythonErrorInfo(op.arg)
        IN  /\ result.st = "throw"
            /\ result.err.cls = TagOfKind(info.type)
            /\ result.err.cls = "PythonBridgeException" =>
                   /\ Contains(result.err.what, <<"Python Error: ", info.type>>)
                   /\ Contains(result.err.what, info.message)
                   /\ (s_verbose_errors /\ info.file # "") =>
                          Contains(result.err.what, <<"\n  File: ", info.file>>)

\* C3 happens: a kind that differs from ValueError only in case was raised
\* and came out as the generic PythonBridgeException.
C3_Witness ==
    /\ op.name = "convertPythonException"
    /\ op.arg.kind = "valueerror"
    /\ result.st = "throw"
    /\ result.err.cls = "PythonBridgeException"

FnThrowsNative(fn) ==
    /\ RunFn(fn).out.st = "throw"
    /\ ~IsPyError(RunFn(fn).out.err)
    /\ IsStdException(RunFn(fn).out.err)

\* C5 as stated: on a native exception in the callable, safeExecute fans out
\* a record of kind "Native Exception" carrying the exception text to every
\* callback once, and re-raises the exception unchanged.
C5_NativeExceptionKind ==
    (op.name = "safeExecute" /\ op.arg.k = "native") =>
        /\ CallbackOrderOfKind("Native Exception") = s_error_callbacks
        /\ result = RunFn(op.arg).out

\* C5 amended: on an exception derived from std::exception the record has
\* kind "C++ Exception" and the exception text as message, reaches every
\* registered callback once, and the exception is re-raised unchanged.
C5_CppExceptionRecord ==
    (op.name = "safeExecute" /\ FnThrowsNative(op.arg)) =>
        /\ CallbackOrderOfKind("C++ Exception") = s_error_callbacks
        /\ \A i \in 1..Len(events) :
              (events[i].ev = "callback" /\ events[i].info.type = "C++ Exception") =>
                  events[i].info = [PythonErrorInfo EXCEPT
                                       !.type = "C++ Exception",
                                       !.message = RunFn(op.arg).out.err.what]
        /\ result.st = "throw"
        /\ result.err = RunFn(op.arg).out.err

\* C5 happens: std::runtime_error("boom") went through safeExecute with a
\* raising callback registered before a logging one.
C5_Witness ==
    /\ op.name = "safeExecute"
    /\ op.arg.k = "native"
    /\ s_error_callbacks = <<"throwing", "log2">>
    /\ Len(events) = 3
    /\ result.st = "throw"
    /\ result.err.cls = "std::runtime_error"

\* C6: whatever fails in a typed call (argument conversion, invocation,
\* result conversion) reaches the caller as an error of the bridge taxonomy.
C6_OnlyTaxonomyErrorsCross ==
    (op.name \in TypedCallNames /\ result.st = "throw") =>
        result.err.cls \in Taxonomy

\* C7: a Python exception raised during any entry point (typed or untyped
\* call, executeCode, executeFile) reaches the caller as a taxonomy error,
\* after every registered callback has received it.
C7_EveryEntryPointTranslates ==
    (/\ op.name \in TypedCallNames \cup UntypedCallNames
     /\ op.arg.usable /\ op.arg.interp
     /\ IF op.name \in {"executeCode", "executeFile"}
        THEN (op.name = "executeFile" => op.arg.hasFunc) /\ op.arg.beh.k = "raise"
        ELSE CallRaisesPython(op.arg)) =>
        /\ result.st = "throw"
        /\ result.err.cls \in Taxonomy
        /\ \A i \in 1..Len(s_error_callbacks) :
              \E j \in 1..Len(events) :
                  events[j].ev = "callback" /\ events[j].cb = s_error_callbacks[i]

\* C8: fromPython<int> on a dynamic text value fails with
\* TypeConversionException and canConvert<int> on it is false; in general a
\* scalar fromPython<T> that fails on an incompatible value fails with
\* TypeConversionException and nothing else.
C8_MismatchIsTypeConversionException ==
    /\ (op.name = "fromPython" /\ op.T = "int" /\ op.obj.t = "str") =>
            (result.st = "throw" /\ result.err.cls = "TypeConversionException")
    /\ (op.name = "canConvert" /\ op.T = "int" /\ op.obj.t = "str") =>
            (result.st = "return" /\ result.val = FALSE)
    /\ (op.name = "fromPython" /\ result.st = "throw") =>
            result.err.cls = "TypeConversionException"

\* C9: for every scalar type T and value v, fromPython<T>(toPython<T>(v))
\* succeeds and gives v back, and canConvert<T>(toPython<T>(v)) is true.
C9_ScalarRoundTrip ==
    op.name = "scalarRoundTrip" =>
        /\ result.back.st = "return"
        /\ result.back.val = op.v
        /\ result.can.st = "return"
        /\ result.can.val = TRUE

\* C9 happens: a long outside the range of int went to a dynamic integer
\* and came back.
C9_Witness ==
    /\ op.name = "scalarRoundTrip"
    /\ op.T = "long"
    /\ op.v = LongLim - 1
    /\ op.v \notin IntValues
    /\ result.obj = DInt(LongLim - 1)
    /\ result.back = Ret(LongLim - 1)

\* C10: maps, vectors, tuples and optionals come back unchanged from a round
\* trip: the map with exactly its pairs in whatever order the dict hands out
\* its items, absent to None and back to absent.
C10_CompositeRoundTrip ==
    /\ op.name = "mapRoundTrip" =>
            /\ result.st = "return"
            /\ DOMAIN result.val = DOMAIN op.m
            /\ \A k \in DOMAIN op.m : result.val[k] = op.m[k]
    /\ op.name = "vectorRoundTrip" =>
            /\ result.st = "return"
            /\ Len(result.val) = Len(op.v)
            /\ \A i \in 1..Len(op.v) : result.val[i] = op.v[i]
    /\ op.name = "tupleRoundTrip" =>
            /\ result.st = "return"
            /\ Len(result.val) = Len(op.t)
            /\ \A i \in 1..Len(op.t) : result.val[i] = op.t[i]
    /\ op.name = "optionalRoundTrip" =>
            /\ result.back.st = "return"
            /\ result.back.val.has = op.o.has
            /\ op.o.has => result.back.val.val = op.o.val
            /\ op.o.has <=> ~isPythonNone(result.obj)

\* C10 happens: the map {"a": 1, "text": 2} came back although the dict
\* handed out "text" before "a".
C10_Witness ==
    /\ op.name = "mapRoundTrip"
    /\ op.K = "string"
    /\ op.V = "int"
    /\ DOMAIN op.m = {"a", "text"}
    /\ op.p = <<2, 1>>
    /\ result.st = "return"
    /\ DOMAIN result.val = {"a", "text"}

\* C11: tupleFromPython on a dynamic sequence whose length differs from the
\* arity of the requested tuple fails and returns no tuple, whether the
\* sequence is shorter or longer.
C11_ArityMismatchFails ==
    (op.name = "tupleFromPython" /\ Len(op.obj.items) # Len(op.Ts)) =>
        result.st = "throw"

\* C11 happens: a 2-element tuple was asked to become a 3-arity tuple and
\* the conversion failed with the size mismatch.
C11_Witness ==
    /\ op.name = "tupleFromPython"
    /\ Len(op.Ts) = 3
    /\ isPythonTuple(op.obj)
    /\ Len(op.obj.items) = 2
    /\ result = Throw(runtime_error(<<"Tuple size mismatch">>))

\* C12: the converter used for a type and direction is the one registered
\* last for it: toPython<T> gives what the latest registered converter gives,
\* fromPython<T> likewise, and the registry holds one entry per type and
\* direction at most.
C12_LastRegistrationWins ==
    /\ \A a, b \in s_to_python_converters : a.key = b.key => a = b
    /\ \A a, b \in s_from_python_converters : a.key = b.key => a = b
    /\ op.name = "registerToPython" =>
          \A v \in ValuesOf(op.T) : toPythonOf(op.T, v) = ToConverter(op.converter, op.T, v)
    /\ op.name = "registerFromPython" =>
          \A obj \in ObjectsFor(op.T) :
              fromPythonOf(op.T, obj) = FromConverter(op.converter, op.T, obj)

\* C13: for every type, the built-in scalars included, toPython<T> and
\* fromPython<T> use the converter registered for T in that direction when
\* there is one.
C13_RegisteredConverterIsUsed ==
    /\ (op.name = "toPython" /\ hasToPythonConverter(op.T)) =>
          result = ToConverter(MapAt(s_to_python_converters, op.T), op.T, op.v)
    /\ (op.name = "fromPython" /\ hasFromPythonConverter(op.T)) =>
          result = FromConverter(MapAt(s_from_python_converters, op.T), op.T, op.obj)

\* C14: a typed call converts its arguments and its result through the
\* conversion engine: with converters registered for T in both directions,
\* the Python function receives what the registered to-converter makes of
\* the argument, and the caller gets what the registered from-converter
\* makes of the returned value.
C14_TypedCallUsesRegisteredConverters ==
    (/\ op.name = "callWithCustomType"
     /\ hasToPythonConverter(op.T)
     /\ hasFromPythonConverter(op.T)
     /\ ToConverter(MapAt(s_to_python_converters, op.T), op.T, op.v).st = "return") =>
        /\ op.called
        /\ Ret(op.received) = ToConverter(MapAt(s_to_python_converters, op.T), op.T, op.v)
        /\ result = FromConverter(MapAt(s_from_python_converters, op.T), op.T, op.received)

C16_SafeCastNeverRaises ==
    op.name = "safeCast" =>
        LET r == fromPythonOf(op.T, op.obj)
        IN  /\ result.st = "return"
            /\ r.st = "return" => result.val = Some(r.val)
            /\ r.st = "throw" => result.val = NullOpt

\* C17: for a Python exception caught by a typed call or by safeExecute the
\* record is extracted exactly once, and that one record is the one logged
\* and the one every callback receives.
C17_RecordCreatedOnce ==
    ((op.name \in TypedCallNames /\ CallRaisesPython(op.arg))
        \/ (op.name = "safeExecute" /\ op.arg.k = "py")) =>
        /\ Len(SelectSeq(events, LAMBDA ev : ev.ev = "extract")) = 1
        /\ \A i \in 1..Len(events) :
              events[i].ev \in {"log", "callback"} =>
                  events[i].info = SelectSeq(events, LAMBDA ev : ev.ev = "extract")[1].info

\* The Python exception the last typed call or safeExecute translated.
TranslatedException ==
    IF op.name = "safeExecute" THEN FnPythonException(op.arg)
    ELSE CallPythonException(op.arg)

\* C18: with logging enabled, a Python exception translated by a typed call
\* or by safeExecute is logged first, then every registered callback runs,
\* then the native error is raised: no callback runs before the log entry
\* and no error is raised without one.
C18_LoggedThenFanOutThenRaised ==
    (/\ s_error_logging
     /\ \/ op.name \in TypedCallNames /\ CallRaisesPython(op.arg)
        \/ op.name = "safeExecute" /\ FnRaisesPython(op.arg)) =>
        /\ result.st = "throw"
        /\ result.err.cls \in Taxonomy
        /\ \E i \in 1..Len(events) :
              /\ events[i].ev = "log"
              /\ events[i].info = extractPythonErrorInfo(TranslatedException)
              /\ \A j \in 1..Len(events) : events[j].ev = "callback" => i < j
        /\ \A k \in 1..Len(s_error_callbacks) :
              \E j \in 1..Len(events) :
                  events[j].ev = "callback" /\ events[j].cb = s_error_callbacks[k]

\* C18 happens: a typed call met ZeroDivisionError with two callbacks
\* registered and logging on; the log entry came before both callbacks and
\* the caller got the generic error.
C18_Witness ==
    /\ s_error_logging
    /\ op.name = "callFunction"
    /\ CallRaisesPython(op.arg)
    /\ op.arg.hasFunc
    /\ op.arg.beh.e.kind = "ZeroDivisionError"
    /\ s_error_callbacks = <<"log1", "log2">>
    /\ SelectSeq(events, LAMBDA ev : ev.ev # "extract")
          = <<LogEvent(extractPythonErrorInfo(op.arg.beh.e),
                       <<"[timestamp] ">> \o formatErrorInfo(extractPythonErrorInfo(op.arg.beh.e))),
              CallbackEvent("log1", extractPythonErrorInfo(op.arg.beh.e)),
              CallbackEvent("log2", extractPythonErrorInfo(op.arg.beh.e))>>
    /\ result.st = "throw"
    /\ result.err.cls = "PythonBridgeException"

\* C19: extractPythonErrorInfo always returns a complete record, and every
\* failure inside it leaves defaults behind: kind "Unknown", no trace and no
\* location when kind or message cannot be read; empty file and symbol and
\* line -1 when the trace or the frame location cannot be read.
C19_ExtractionFailureGivesDefaults ==
    op.name = "convertPythonException" =>
        LET info == events[1].info
            e == op.arg
        IN  /\ DOMAIN info = DOMAIN PythonErrorInfo
            /\ e.strRaises =>
                  /\ info.type = "Unknown"
                  /\ info.traceback = <<>>
                  /\ info.file = "" /\ info.function = "" /\ info.line = -1
            /\ e.tb \in {"fmtfail", "extfail", "noline"} =>
                  info.file = "" /\ info.function = "" /\ info.line = -1

\* The message text of the exception a delivered record was made from.
SourceOfRecord(info) ==
    IF info.type = "C++ Exception" THEN RunFn(op.arg).out.err.what
    ELSE IF op.name \in TypedCallNames THEN CallPythonException(op.arg).msg
    ELSE FnPythonException(op.arg).msg

----------------------------------------------------------------------------
(* C21: on an initialized bridge loadModule(name) returns a loaded module  *)
(* when the import succeeds and null, raising nothing, when it fails; the  *)
(* cache holds exactly the names whose load succeeded, each mapped to a    *)
(* loaded module, and a repeated loadModule(name) or getModule(name)       *)
(* returns that cached instance.                                           *)

\* The state a loadModule or getModule call leaves behind.
C21_AfterCall ==
    /\ \A e \in m_modules :
          /\ e.value \in 1..Len(modules)
          /\ modules[e.value].m_loaded
          /\ modules[e.value].m_module_name = e.key
    /\ \A e, f \in m_modules : e.key = f.key => e = f
    /\ op.name = "getModule" =>
          result = Ret(IF MapHas(m_modules, op.module_name)
                       THEN MapAt(m_modules, op.module_name) ELSE 0)
    /\ (op.name = "loadModule" /\ bridge_initialized) =>
          IF result.st = "throw"
          THEN op.how # "ok" /\ ~MapHas(m_modules, op.module_name)
          ELSE IF Importable(op.module_name)
          THEN /\ result.val # 0
               /\ modules[result.val].m_loaded
               /\ MapHas(m_modules, op.module_name)
               /\ MapAt(m_modules, op.module_name) = result.val
          ELSE result.val = 0 /\ ~MapHas(m_modules, op.module_name)

\* What a step does to the cache: entries stay for good, and only a load
\* that succeeded adds one.
C21_CacheStep ==
    /\ m_modules \subseteq m_modules'
    /\ \A e \in m_modules' \ m_modules :
          /\ op'.name \in {"loadModule", "createFunction"}
          /\ e.key = op'.module_name
          /\ Importable(e.key)
          /\ e.value = Len(modules')
          /\ op'.name = "loadModule" => result' = Ret(e.value)
    /\ (op'.name = "loadModule" /\ bridge_initialized /\ MapHas(m_modules, op'.module_name)) =>
          /\ result' = Ret(MapAt(m_modules, op'.module_name))
          /\ modules' = modules

----------------------------------------------------------------------------
(* C22: isInitialized() is false before the first initialize() and true    *)
(* only after an initialize() that completed without raising and before    *)
(* the next finalize(); initialize() on an initialized interpreter and     *)
(* finalize() on an uninitialized one change nothing; addModulePath and    *)
(* execute fail without touching the runtime while isInitialized() is      *)
(* false.                                                                  *)

\* The operations that call PythonInterpreter::initialize().
InitializingCalls ==
    {"initialize", "PythonModule", "bridgeInitialize", "loadModule", "createFunction"}

C22_NothingChanges ==
    /\ UNCHANGED <<m_initialized, bridge_initialized, m_modules, modules, functions>>
    /\ runtime_use' = "none"

C22_Step ==
    /\ (op'.name = "initialize" /\ result'.st = "throw") => ~m_initialized'
    /\ (~m_initialized /\ m_initialized') => op'.name \in InitializingCalls
    /\ (m_initialized /\ ~m_initialized') => op'.name = "finalize"
    /\ op'.name = "finalize" => ~m_initialized'
    /\ (op'.name = "initialize" /\ m_initialized) =>
          C22_NothingChanges /\ result' = Ret("void")
    /\ (op'.name = "finalize" /\ ~m_initialized) => C22_NothingChanges
    /\ (op'.name \in {"addModulePath", "execute"} /\ ~m_initialized) =>
          /\ C22_NothingChanges
          /\ result' = Throw(runtime_error(<<"Python interpreter not initialized">>))

C22_InitializedOnlyAfterInitialize == [][C22_Step]_vars

----------------------------------------------------------------------------
(* C23: the built-in fromPython<T> succeeds exactly when the dynamic       *)
(* value's runtime type is in T's accepted set: bool from a boolean only,  *)
(* int and long from an integer only, float and double from an integer or  *)
(* a floating-point value, std::string from text only; a boolean is not    *)
(* accepted as an integer and an integer is not accepted as a boolean.     *)

AcceptedTypes(T) ==
    CASE T = "bool" -> {"bool"}
      [] T \in {"int", "long"} -> {"int"}
      [] T \in {"float", "double"} -> {"int", "float"}
      [] T = "string" -> {"str"}

C23_AcceptsExactlyItsTypes ==
    (op.name = "fromPython" /\ op.T \in ScalarTypes) =>
        (result.st = "return" <=> op.obj.t \in AcceptedTypes(op.T))

----------------------------------------------------------------------------
(* C24: fromPython<int> and fromPython<long> of a dynamic floating-point   *)
(* value are permitted by the underlying cast and do not fail.             *)

FloatToInteger ==
    /\ op.name = "fromPython"
    /\ op.T \in {"int", "long"}
    /\ op.obj.t = "float"

C24_FloatToIntegerPermitted == FloatToInteger => result.st = "return"

(* C24 as amended: fromPython<int> and fromPython<long> of a dynamic       *)
(* floating-point value fail in the membership test, before any cast,      *)
(* with std::runtime_error "Cannot convert Python object to int" (or       *)
(* "... to long"); nothing is truncated.                                   *)
C24_FloatToIntegerRejected ==
    FloatToInteger =>
        result = Throw(runtime_error(
                     IF op.T = "int" THEN <<"Cannot convert Python object to int">>
                     ELSE <<"Cannot convert Python object to long">>))

C24_Witness ==
    /\ FloatToInteger
    /\ op.T = "int"
    /\ op.obj = DFloat(3)
    /\ result.st = "throw"

----------------------------------------------------------------------------
(* C25: vectorFromPython<T> is order-preserving and all-or-nothing: on a   *)
(* dynamic list of length n it returns the vector of length n whose        *)
(* element i is fromPython<T> of list element i; when the input is not a   *)
(* list or one element fails to convert, the whole conversion fails and no *)
(* partial vector is returned.                                             *)
C25_VectorIndexForIndexOrNothing ==
    op.name = "vectorFromPython" =>
        LET items == op.obj.items
            each == [i \in 1..Len(items) |-> fromPython(op.T, items[i])]
        IN  IF isPythonList(op.obj) /\ \A i \in 1..Len(items) : each[i].st = "return"
            THEN /\ result.st = "return"
                 /\ Len(result.val) = Len(items)
                 /\ \A i \in 1..Len(items) : result.val[i] = each[i].val
            ELSE result.st = "throw"

\* a list whose second element does not convert
C25_Witness ==
    /\ op.name = "vectorFromPython"
    /\ op.T = "int"
    /\ op.obj = DList(<<DInt(1), DStr("a")>>)
    /\ result.st = "throw"

----------------------------------------------------------------------------
(* C26: a typed call on an unusable handle fails before the runtime is     *)
(* reached: callFunction<R> on a module that is not loaded raises          *)
(* PythonModuleException with the module's name, call<R> / operator() on   *)
(* a function that is not valid raise PythonFunctionException with the     *)
(* function's name, and nothing is invoked, logged or called back.         *)
(* isValid() is true exactly when the function's module is non-null,       *)
(* loaded and has the named attribute.                                     *)

C26_UnusableHandleFailsEarly ==
    /\ (op.name = "callFunction" /\ ~modules[op.m].m_loaded) =>
          /\ result = Throw(PythonModuleException(modules[op.m].m_module_name,
                                                  <<"Module not loaded">>))
          /\ events = <<>>
          /\ runtime_use = "none"
    /\ (op.name \in {"call", "operator()"} /\ ~functions[op.f].m_valid) =>
          /\ result = Throw(PythonFunctionException(functions[op.f].m_func_name,
                                                    <<"Invalid function">>))
          /\ events = <<>>
          /\ runtime_use = "none"

C26_ValidIffModuleHasFunction ==
    \A f \in 1..Len(functions) :
        LET m == functions[f].m_module IN
        functions[f].m_valid <=>
            /\ m # 0
            /\ modules[m].m_loaded
            /\ HasAttribute(modules[m].m_module_name, functions[f].m_func_name)

C26_UnusableHandles == C26_UnusableHandleFailsEarly /\ C26_ValidIffModuleHasFunction

----------------------------------------------------------------------------
(* C27: canConvert<T>(v) is true exactly when fromPython<T>(v) succeeds,   *)
(* so that fromPython<T>(v) after a true canConvert<T>(v) never raises.    *)
C27_CanConvertAgreesWithFromPython ==
    (op.name = "canConvert" /\ op.T \in ScalarTypes) =>
        /\ result.st = "return"
        /\ result.val <=> fromPython(op.T, op.obj).st = "return"

----------------------------------------------------------------------------
(* C28: the callback of a ScopedErrorHandler is invoked only for errors    *)
(* handled during the object's lifetime: once the object is destroyed its  *)
(* callback is no longer in the callback list and is never invoked again.  *)
C28_CallbackEndsWithScope ==
    scoped_handlers = 0 =>
        /\ \A i \in 1..Len(s_error_callbacks) : s_error_callbacks[i] # ScopedCallback
        /\ \A i \in 1..Len(events) :
              events[i].ev = "callback" => events[i].cb # ScopedCallback

----------------------------------------------------------------------------
(* C29: when a callback calls addErrorCallback, setGlobalErrorCallback or  *)
(* clearErrorCallbacks during a fan-out, the fan-out still delivers the    *)
(* record exactly once, in order, to each callback registered when it      *)
(* began and to none added during it; the change to the list takes         *)
(* effect for later errors.                                                *)

\* The callback list once every callback of cbs has made its change.
RECURSIVE ListAfter(_, _, _)
ListAfter(begun, i, cbs) ==
    IF i > Len(begun) THEN cbs
    ELSE ListAfter(begun, i + 1, AfterCallback(begun[i], cbs))

C29_FanOutOverListAtStart ==
    op.name = "safeExecute" =>
        /\ result.st = "throw"
        /\ CallbackOrder = op.callbacks
        /\ s_error_callbacks = ListAfter(op.callbacks, 1, op.callbacks)

----------------------------------------------------------------------------
(* C30: no call into the embedded runtime is made while the interpreter    *)
(* is not initialized: after finalize(), a typed call on a module loaded   *)
(* before, on a function valid before, or on a module still in a bridge's  *)
(* cache fails with a native error instead of reaching the finalized       *)
(* runtime.                                                                *)
C30_NoCallIntoFinalizedRuntime ==
    op.name \in {"callFunction", "call", "operator()"} =>
        /\ runtime_use # "finalized"
        /\ ~m_initialized =>
              /\ result.st = "throw"
              /\ result.err.cls \in Taxonomy \cup {"std::runtime_error"}

====
